---- MODULE Spec2Model ----
(***************************************************************************)
(* A model of the license identification engine of pmezard/licenses       *)
(* (src/licenses.go, lines 1-608): the similarity scorer matchTemplates,  *)
(* the license file locator findLicense, the report builder listLicenses  *)
(* and the reducer groupLicenses.                                         *)
(***************************************************************************)
EXTENDS Integers, Sequences, FiniteSets, TLC

(***************************************************************************)
(* Bounds of the model.                                                   *)
(***************************************************************************)
\* longest candidate token stream (tokens found by reWords in a license file)
MaxLen == 3
\* most templates in the corpus handed to matchTemplates
MaxTemplates == 2
\* most segments of an import path handed to findLicense
MaxDepth == 3
\* most packages in the list handed to listLicenses' loop
MaxPkgs == 2

\* normalized tokens
Words == {"a", "b", "c"}

\* token streams of template bodies: empty, the same vocabulary in two orders,
\* repeated tokens, first occurrences that are not adjacent
TemplateBodies ==
    { <<>>, <<"a", "b">>, <<"b", "a">>,
      <<"c", "c", "b">>, <<"b", "a", "b", "c">> }

(***************************************************************************)
(* Generic helpers.                                                       *)
(***************************************************************************)
Range(s) == {s[i] : i \in DOMAIN s}

SeqsUpTo(S, n) == UNION {[1..k -> S] : k \in 0..n}

\* every order in which a Go map with key set S may be iterated
Perms(S) ==
    {p \in [1..Cardinality(S) -> S] : \A i, j \in DOMAIN p : i # j => p[i] # p[j]}

(***************************************************************************)
(* State.                                                                 *)
(***************************************************************************)
VARIABLES
    \* ---- matchTemplates ----
    license,       \* token stream of the candidate file
    assets,        \* token streams of the template bodies, in corpus order
    ti,            \* number of templates the loop has processed
    bestScore, bestTemplate, bestExtra, bestMissing,
    iter,          \* locals of the last loop iteration: common, extra, missing, score
    result,        \* the returned MatchResult
    prev,          \* the MatchResult returned by the previous call
    second,        \* TRUE in and after the second call on the same input
    pc,
    \* ---- findLicense ----
    info,          \* the PkgInfo findLicense was called with
    fs,            \* the directories under <Root>/src, by <<Root, path>>
    path,          \* the directory the walk is at
    visited,       \* the directories handed to ioutil.ReadDir, in order
    findPath,      \* the returned path
    findErr,       \* TRUE when an error is returned
    \* ---- listLicenses, groupLicenses ----
    infos,         \* the PkgInfo list of getPackagesInfo, sorted by import path
    stdSet,        \* import paths of the standard packages
    li,            \* number of infos the loop has processed
    matched,       \* the cache: <<Root, path>> of a license file -> MatchResult
    licenses,      \* the rows built so far, then the rows returned
    listErr,       \* TRUE when listLicenses returns an error
    kept,          \* the rows groupLicenses returns
    groupErr,      \* TRUE when groupLicenses returns an error
    golist,        \* the first call that fails in this run, and what go printed
    errKind,       \* the type of the error listLicenses returns
    findCalls,     \* the import paths findLicense was called for, in order
    matchCalls,    \* the calls of matchTemplates: the package and the file
    \* ---- scoreLicenseName ----
    fname,         \* the file name scored, as its pieces
    fscore,        \* the score returned, in tenths
    fpicked,       \* bestName of findLicense's loop over a directory holding only fname
    \* ---- cleanLicenseData, makeWordSet ----
    raw,           \* the data, as its pieces: words, marks, blanks, line ends
    cleaned,       \* cleanLicenseData(raw)
    wordSet,       \* makeWordSet(raw)
    recleaned,     \* cleanLicenseData(cleaned)
    \* ---- loadTemplates, parseTemplate ----
    contents,      \* assets.Assets: the content of each asset, as lines
    ai,            \* number of assets taken from the loop of loadTemplates
    lineNo,        \* number of lines the scanner has returned
    state,         \* parseTemplate: 0 preamble, 1 front matter, 2 body
    title,         \* t.Title
    nickname,      \* t.Nickname
    bodyText,      \* text: the bytes given to makeWordSet
    parsed,        \* what parseTemplate returned
    loaded,        \* templates of loadTemplates
    loadRet        \* what loadTemplates returned

matchVars == <<license, assets, ti, bestScore, bestTemplate, bestExtra,
               bestMissing, iter, result, prev, second>>

findVars == <<info, fs, path, visited, findPath, findErr>>

listVars == <<infos, stdSet, li, matched, licenses, listErr, kept, groupErr,
              golist, errKind, findCalls, matchCalls>>

nameVars == <<fname, fscore, fpicked>>

cleanVars == <<raw, cleaned, wordSet, recleaned>>

parseVars == <<contents, ai, lineNo, state, title, nickname, bodyText, parsed,
               loaded, loadRet>>

vars == <<pc, matchVars, findVars, listVars, nameVars, cleanVars, parseVars>>

(***************************************************************************)
(* cleanLicenseData and reWords. The data is the sequence of its pieces:  *)
(* a word, a year, a mark, a blank " ", a line end "\n", a colon or the   *)
(* dashes "---".                                                          *)
(***************************************************************************)
\* bytes.ToLower, piece by piece
ToLower(c) ==
    CASE c = "Copyright" -> "copyright"
      [] c = "John" -> "john"
      [] c = "MIT" -> "mit"
      [] c = "X11" -> "x11"
      [] OTHER -> c

\* \s*: the index after the blanks and line ends from i on
RECURSIVE skipSpaces(_, _)
skipSpaces(t, i) ==
    IF i <= Len(t) /\ t[i] \in {" ", "\n"} THEN skipSpaces(t, i + 1) ELSE i

\* the line end is deleted with the line
RECURSIVE restOfLineAndEnd(_, _)
restOfLineAndEnd(t, i) ==
    IF i <= Len(t) /\ t[i] # "\n" THEN restOfLineAndEnd(t, i + 1)
    ELSE IF i <= Len(t) THEN i + 1 ELSE i

\* .*: the index of the next line end, or after the last piece
RECURSIVE restOfLine(_, _)
restOfLine(t, i) ==
    IF i <= Len(t) /\ t[i] # "\n" THEN restOfLine(t, i + 1) ELSE i

\* (?:\d{4}|\[year\]).* at i: the index after the match, 0 for none
yearAt(t, i) ==
    IF i <= Len(t) /\ t[i] \in {"2015", "[year]"} THEN restOfLine(t, i + 1) ELSE 0

\* reCopyright at i: the index after the match, 0 for none; of the marks only
\* (c) is among the pieces
reCopyright(t, i) ==
    LET w == skipSpaces(t, i)
    IN IF w + 1 <= Len(t) /\ ToLower(t[w]) = "copyright" /\ t[w + 1] = " "
       THEN IF /\ w + 2 <= Len(t)
               /\ t[w + 2] = "(c)"
               /\ yearAt(t, skipSpaces(t, w + 3)) # 0
            THEN yearAt(t, skipSpaces(t, w + 3))
            ELSE yearAt(t, skipSpaces(t, w + 2))
       ELSE 0

\* reCopyright.ReplaceAll(data, nil), from piece i on
RECURSIVE replaceAll(_, _)
replaceAll(t, i) ==
    IF i > Len(t) THEN <<>>
    ELSE IF reCopyright(t, i) # 0 THEN replaceAll(t, reCopyright(t, i))
         ELSE <<t[i]>> \o replaceAll(t, i + 1)

\* the data is not put in lower case
cleanLicenseDataAsIs(data) == replaceAll(data, 1)

cleanLicenseData(data) == replaceAll([i \in DOMAIN data |-> ToLower(data[i])], 1)

\* reWords.FindAll(data, -1), from piece i on: the maximal runs of word
\* characters; run: the characters of the run being read
RECURSIVE findAll(_, _, _)
findAll(t, i, run) ==
    LET flush == IF run = "" THEN <<>> ELSE <<run>>
    IN IF i > Len(t) THEN flush
       ELSE IF t[i] \in {" ", "\n", ":", "---"} THEN flush \o findAll(t, i + 1, "")
       ELSE IF t[i] = "(c)" THEN flush \o <<"c">> \o findAll(t, i + 1, "")
       ELSE IF t[i] = "[year]" THEN flush \o <<"year">> \o findAll(t, i + 1, "")
       ELSE findAll(t, i + 1, run \o t[i])

(***************************************************************************)
(* Tokenizer: makeWordSet, from the token stream on.                      *)
(***************************************************************************)
\* variant: every occurrence sets the index
RECURSIVE makeWordSetFromLast(_, _, _)
makeWordSetFromLast(matches, i, words) ==
    IF i > Len(matches) THEN words
    ELSE makeWordSetFromLast(matches, i + 1,
            (matches[i] :> (i - 1)) @@ words)

RECURSIVE makeWordSetFrom(_, _, _)
makeWordSetFrom(matches, i, words) ==
    IF i > Len(matches) THEN words
    ELSE makeWordSetFrom(matches, i + 1,
            IF matches[i] \in DOMAIN words THEN words
            ELSE words @@ (matches[i] :> (i - 1)))

\* token -> 0-based index of its first occurrence in the token stream
makeWordSet(matches) == makeWordSetFrom(matches, 1, <<>>)

parseTemplate(body) == [Words |-> makeWordSet(body)]

loadTemplates(as) == [i \in DOMAIN as |-> parseTemplate(as[i])]

templates == loadTemplates(assets)

(***************************************************************************)
(* Scores: float64 quotients of small integers, kept as exact fractions.  *)
(* den = 0 is 0/0, the NaN of float64 division; every comparison with it  *)
(* is false. Distinct fractions of integers this small are distinct       *)
(* float64 values, so comparing the fractions is comparing the floats.    *)
(***************************************************************************)
Frac(n, d) == [num |-> n, den |-> d]

\* variant: the best score starts at 0
SentinelZero == Frac(0, 1)

Sentinel == Frac(-1, 1)

IsNaN(s) == s.den = 0

\* s >= b: a later template replaces an earlier one of equal score
GreaterOrEqual(s, b) == ~IsNaN(s) /\ ~IsNaN(b) /\ s.num * b.den >= b.num * s.den

\* s > b on float64
Greater(s, b) == ~IsNaN(s) /\ ~IsNaN(b) /\ s.num * b.den > b.num * s.den

\* the factor 2 is left out
DiceHalf(common, nc, nt) == Frac(common, nc + nt)

\* len(words) stands where len(t.Words) should
DiceCandidateOnly(common, nc, nt) == Frac(2 * common, nc + nc)

\* score := 2 * float64(common) / (float64(len(words)) + float64(len(t.Words)))
Dice(common, nc, nt) == Frac(2 * common, nc + nt)

(***************************************************************************)
(* One iteration of the template loop, for one iteration order of each    *)
(* of the two maps.                                                       *)
(***************************************************************************)
Word(text, pos) == [Text |-> text, Pos |-> pos]

\* every word of 'words' is appended, the common ones too
extraWordsAll(order, words, twords) ==
    [i \in DOMAIN order |-> Word(order[i], words[order[i]])]

\* first inner loop: the words of 'words' met in 'order' that t lacks
extraWords(order, words, twords) ==
    LET all == [i \in DOMAIN order |-> Word(order[i], words[order[i]])]
        Absent(w) == w.Text \notin DOMAIN twords
    IN SelectSeq(all, Absent)

\* first inner loop: common++
commonWords(order, words, twords) ==
    LET Present(w) == w \in DOMAIN twords
    IN Len(SelectSeq(order, Present))

\* second inner loop: the words of t met in 'order' that 'words' lacks
missingWords(order, words, twords) ==
    LET all == [i \in DOMAIN order |-> Word(order[i], twords[order[i]])]
        Absent(w) == w.Text \notin DOMAIN words
    IN SelectSeq(all, Absent)

\* sort.Sort(sortedWords(words)): insertion of w into a slice sorted by Pos
RECURSIVE insertWord(_, _)
insertWord(sorted, w) ==
    IF sorted = <<>> THEN <<w>>
    ELSE IF w.Pos < sorted[Len(sorted)].Pos
         THEN Append(insertWord(SubSeq(sorted, 1, Len(sorted) - 1), w),
                     sorted[Len(sorted)])
         ELSE Append(sorted, w)

RECURSIVE sortWords(_)
sortWords(words) ==
    IF words = <<>> THEN <<>>
    ELSE insertWord(sortWords(SubSeq(words, 1, Len(words) - 1)), words[Len(words)])

wordTexts(words) == [i \in DOMAIN words |-> words[i].Text]

\* the word texts in map iteration order: the sort is left out
unsortedWords(words) == wordTexts(words)

sortAndReturnWords(words) == wordTexts(sortWords(words))

\* locals of one loop iteration over template t
matchOne(words, t, oc, ot) ==
    LET common == commonWords(oc, words, t.Words)
    IN [common  |-> common,
        extra   |-> extraWords(oc, words, t.Words),
        missing |-> missingWords(ot, words, t.Words),
        score   |-> Dice(common, Cardinality(DOMAIN words),
                         Cardinality(DOMAIN t.Words))]

\* if score > bestScore { bestScore, bestTemplate, bestMissing, bestExtra = ... }
\* the update keeps the word lists of the earlier running best
updateBestStale(b, index, it) ==
    IF Greater(it.score, b.Score)
    THEN [Score |-> it.score, Template |-> index,
          Extra |-> b.Extra, Missing |-> b.Missing]
    ELSE b

updateBest(b, index, it) ==
    IF Greater(it.score, b.Score)
    THEN [Score |-> it.score, Template |-> index,
          Extra |-> it.extra, Missing |-> it.missing]
    ELSE b

MatchResult(b) ==
    [Template     |-> b.Template,
     Score        |-> b.Score,
     ExtraWords   |-> sortAndReturnWords(b.Extra),
     MissingWords |-> sortAndReturnWords(b.Missing)]

\* no template: the nil pointer
NoTemplate == 0

NoBest == [Score |-> Sentinel, Template |-> NoTemplate, Extra |-> <<>>, Missing |-> <<>>]

NoIter == [common |-> 0, extra |-> <<>>, missing |-> <<>>, score |-> Frac(0, 1)]

NoResult == [Template |-> NoTemplate, Score |-> Frac(0, 1),
             ExtraWords |-> <<>>, MissingWords |-> <<>>]

best == [Score |-> bestScore, Template |-> bestTemplate,
         Extra |-> bestExtra, Missing |-> bestMissing]

(***************************************************************************)
(* matchTemplates, one template per step.                                 *)
(***************************************************************************)
MatchInit ==
    /\ license \in SeqsUpTo(Words, MaxLen)
    /\ assets \in SeqsUpTo(TemplateBodies, MaxTemplates)
    /\ ti = 0
    /\ bestScore = NoBest.Score
    /\ bestTemplate = NoBest.Template
    /\ bestExtra = NoBest.Extra
    /\ bestMissing = NoBest.Missing
    /\ iter = NoIter
    /\ result = NoResult
    /\ prev = NoResult
    /\ second = FALSE
    /\ pc = "loop"

\* for _, t := range templates { ... }
MatchTemplate ==
    /\ pc = "loop"
    /\ ti < Len(templates)
    /\ LET words == makeWordSet(license)
           t == templates[ti + 1]
       IN \E oc \in Perms(DOMAIN words), ot \in Perms(DOMAIN t.Words) :
            LET it == matchOne(words, t, oc, ot)
                nb == updateBest(best, ti + 1, it)
            IN /\ iter' = it
               /\ bestScore' = nb.Score
               /\ bestTemplate' = nb.Template
               /\ bestExtra' = nb.Extra
               /\ bestMissing' = nb.Missing
    /\ ti' = ti + 1
    /\ UNCHANGED <<parseVars, cleanVars, nameVars, license, assets, result, prev, second, pc, findVars, listVars>>

\* return MatchResult{...}
MatchReturn ==
    /\ pc = "loop"
    /\ ti = Len(templates)
    /\ result' = MatchResult(best)
    /\ pc' = "done"
    /\ UNCHANGED <<parseVars, cleanVars, nameVars, license, assets, ti, bestScore, bestTemplate, bestExtra,
                   bestMissing, iter, prev, second, findVars, listVars>>

\* the caller runs matchTemplates again on the same data and corpus
MatchAgain ==
    /\ pc = "done"
    /\ ~second
    /\ prev' = result
    /\ second' = TRUE
    /\ ti' = 0
    /\ bestScore' = NoBest.Score
    /\ bestTemplate' = NoBest.Template
    /\ bestExtra' = NoBest.Extra
    /\ bestMissing' = NoBest.Missing
    /\ iter' = NoIter
    /\ result' = NoResult
    /\ pc' = "loop"
    /\ UNCHANGED <<parseVars, cleanVars, nameVars, license, assets, findVars, listVars>>

MatchNext == MatchTemplate \/ MatchReturn \/ MatchAgain

\* the scorer is not running
MatchIdle ==
    /\ license = <<>>
    /\ assets = <<>>
    /\ ti = 0
    /\ bestScore = NoBest.Score
    /\ bestTemplate = NoBest.Template
    /\ bestExtra = NoBest.Extra
    /\ bestMissing = NoBest.Missing
    /\ iter = NoIter
    /\ result = NoResult
    /\ prev = NoResult
    /\ second = FALSE

(***************************************************************************)
(* File names and reLicense. A file name is the sequence of its pieces:   *)
(* a word, a digit, a dash, an underscore, or the dot ".". The expression *)
(* is matched piece by piece; scores are in tenths.                       *)
(***************************************************************************)
\* the file name as one string
RECURSIVE text(_)
text(name) == IF name = <<>> THEN "" ELSE name[1] \o text(Tail(name))

\* the pieces are compared as they are written
lowerNone(a) == a

\* (?i): the lower-case form of a piece
lower(a) ==
    CASE a = "LICENSE" -> "license"
      [] a = "LICENCE" -> "licence"
      [] a = "UN" -> "un"
      [] a = "COPYING" -> "copying"
      [] a = "COPYRIGHT" -> "copyright"
      [] a = "MD" -> "md"
      [] a = "TXT" -> "txt"
      [] OTHER -> a

\* the operators of the expression: one piece out of a set, [^.], a sequence,
\* ( )? and ( )+
Piece(S) == [op |-> "piece", set |-> S]

NotDot == [op |-> "notdot"]

Cat(rs) == [op |-> "cat", parts |-> rs]

Opt(r) == [op |-> "opt", arg |-> r]

Plus(r) == [op |-> "plus", arg |-> r]

\* what is left of pieces s after r has matched at its start, in every way
RECURSIVE rests(_, _)
rests(r, s) ==
    CASE r.op = "piece" -> IF s # <<>> /\ lower(s[1]) \in r.set THEN {Tail(s)} ELSE {}
      [] r.op = "notdot" -> IF s # <<>> /\ s[1] # "." THEN {Tail(s)} ELSE {}
      [] r.op = "cat" ->
            IF r.parts = <<>> THEN {s}
            ELSE UNION {rests(Cat(Tail(r.parts)), t) : t \in rests(Head(r.parts), s)}
      [] r.op = "opt" -> {s} \cup rests(r.arg, s)
      [] r.op = "plus" ->
            LET once == rests(r.arg, s)
            IN once \cup UNION {rests(r, t) : t \in once}

\* the expression without its closing $
prefixMatch(r, s) == rests(r, s) # {}

\* ^( ... )$
fullMatch(r, s) == <<>> \in rests(r, s)

licence == Piece({"license", "licence"})

\* the four parenthesised alternatives of reLicense
reLicense ==
    << Cat(<<Opt(Piece({"un"})), licence>>),
       Cat(<<Opt(Piece({"un"})), licence, Piece({"."}), Piece({"md", "markdown", "txt"})>>),
       Cat(<<Piece({"copying", "copyright"}), Opt(Cat(<<Piece({"."}), Plus(NotDot)>>))>>),
       Cat(<<licence, Opt(Plus(Piece({"-", "_", "0", "1", "2", "."}))),
             Piece({"."}), Plus(NotDot)>>) >>

\* m := reLicense.FindStringSubmatch(name): the number of the alternative that
\* matched, the first in the order written; 0 for m == nil
submatch(name) ==
    IF \E k \in DOMAIN reLicense : fullMatch(reLicense[k], name)
    THEN CHOOSE k \in DOMAIN reLicense :
            /\ fullMatch(reLicense[k], name)
            /\ \A j \in 1..(k - 1) : ~fullMatch(reLicense[j], name)
    ELSE 0

\* the switch on the first non-empty submatch
scoreLicenseName(name) ==
    LET m == submatch(name)
    IN CASE m = 1 -> 10
         [] m = 2 -> 9
         [] m = 3 -> 8
         [] m = 4 -> 7
         [] OTHER -> 0

(***************************************************************************)
(* The file system under the source roots. ioutil.ReadDir fails or        *)
(* returns the entries of a directory sorted by file name.                *)
(***************************************************************************)
\* byte order of the file names of the model
NameOrder == << <<"COPYING">>, <<"LICENCE">>, <<"LICENSE">>, <<"main", ".", "go">> >>

\* Data: the tokens of the file; Unreadable: ioutil.ReadFile fails on it
Entry(name, regular, data) ==
    [Name |-> name, Regular |-> regular, Data |-> data, Unreadable |-> FALSE]

UnreadableEntry(name) ==
    [Name |-> name, Regular |-> TRUE, Data |-> <<>>, Unreadable |-> TRUE]

\* the entries of set S in ReadDir's order
RECURSIVE listingFrom(_, _)
listingFrom(S, i) ==
    IF i > Len(NameOrder) THEN <<>>
    ELSE LET here == {e \in S : e.Name = NameOrder[i]}
         IN (IF here = {} THEN <<>> ELSE <<CHOOSE e \in here : TRUE>>)
            \o listingFrom(S, i + 1)

DistinctNames(S) == \A e, f \in S : e.Name = f.Name => e = f

ReadDirOk(S) == [Err |-> FALSE, Entries |-> listingFrom(S, 1)]

ReadDirFails == [Err |-> TRUE, Entries |-> <<>>]

Dirs(entries) ==
    {ReadDirOk(S) : S \in {T \in SUBSET entries : DistinctNames(T)}} \cup {ReadDirFails}

\* "." : where filepath.Dir ends
Dot == <<>>

\* the first segment of a path with a leading separator; <<"/">> is "/"
Slash == "/"

\* filepath.Dir of a slash-separated path, as its segments: "." above the
\* first segment of a relative path, "/" above "/" itself
Dir(p) == IF p = <<Slash>> THEN p ELSE SubSeq(p, 1, Len(p) - 1)

\* filepath.Join(path, name)
Join(p, name) == Append(p, name)

\* the empty path ""
NoPath == <<>>

Prefixes(p) == {SubSeq(p, 1, k) : k \in 1..Len(p)}

\* the directories findLicense may read for a package
Chain(pkg) == {<<pkg.Root, q>> : q \in Prefixes(pkg.ImportPath)}

PkgInfo(name, root, importPath, error) ==
    [Name |-> name, Root |-> root, ImportPath |-> importPath, Error |-> error]

\* info.Error == nil
NoError == ""

NoInfo == PkgInfo(<<>>, "", <<>>, NoError)

(***************************************************************************)
(* findLicense, one directory per step.                                   *)
(***************************************************************************)
\* visited keeps the first MaxVisits directories of a walk
MaxVisits == MaxDepth + 2

\* only a file scoring 1.0 is taken for a license file
RECURSIVE scanDirExactOnly(_, _, _, _)
scanDirExactOnly(fis, i, bScore, bName) ==
    IF i > Len(fis) THEN bName
    ELSE IF fis[i].Regular /\ scoreLicenseName(fis[i].Name) > 9
         THEN scanDirExactOnly(fis, i + 1, scoreLicenseName(fis[i].Name), fis[i].Name)
         ELSE scanDirExactOnly(fis, i + 1, bScore, bName)

\* variant: a file of equal score replaces the one kept
RECURSIVE scanDirLast(_, _, _, _)
scanDirLast(fis, i, bScore, bName) ==
    IF i > Len(fis) THEN bName
    ELSE IF fis[i].Regular /\ scoreLicenseName(fis[i].Name) >= bScore
         THEN scanDirLast(fis, i + 1, scoreLicenseName(fis[i].Name), fis[i].Name)
         ELSE scanDirLast(fis, i + 1, bScore, bName)

\* for _, fi := range fis { ... }: the name kept after entries i.. of fis
RECURSIVE scanDir(_, _, _, _)
scanDir(fis, i, bScore, bName) ==
    IF i > Len(fis) THEN bName
    ELSE IF fis[i].Regular /\ scoreLicenseName(fis[i].Name) > bScore
         THEN scanDir(fis, i + 1, scoreLicenseName(fis[i].Name), fis[i].Name)
         ELSE scanDir(fis, i + 1, bScore, bName)

\* bestName after the loop over one directory
bestNameIn(dir) == scanDir(dir.Entries, 1, 0, <<>>)

here == fs[<<info.Root, path>>]

\* ReadDir fails: return "", err
FindReadDirFails ==
    /\ pc = "find"
    /\ path # Dot
    /\ here.Err
    /\ visited' = Append(visited, path)
    /\ findPath' = NoPath
    /\ findErr' = TRUE
    /\ pc' = "return"
    /\ UNCHANGED <<parseVars, cleanVars, nameVars, matchVars, listVars, info, fs, path>>

\* bestName != "": return filepath.Join(path, bestName), nil
FindCandidate ==
    /\ pc = "find"
    /\ path # Dot
    /\ ~here.Err
    /\ bestNameIn(here) # <<>>
    /\ visited' = Append(visited, path)
    /\ findPath' = Join(path, text(bestNameIn(here)))
    /\ findErr' = FALSE
    /\ pc' = "return"
    /\ UNCHANGED <<parseVars, cleanVars, nameVars, matchVars, listVars, info, fs, path>>

\* no candidate here: path = filepath.Dir(path)
FindAscend ==
    /\ pc = "find"
    /\ path # Dot
    /\ ~here.Err
    /\ bestNameIn(here) = <<>>
    /\ visited' = IF Len(visited) < MaxVisits THEN Append(visited, path) ELSE visited
    /\ path' = Dir(path)
    /\ UNCHANGED <<parseVars, cleanVars, nameVars, matchVars, listVars, pc, info, fs, findPath, findErr>>

\* path == ".": nothing found is reported as an error
FindNotFoundErr ==
    /\ pc = "find"
    /\ path = Dot
    /\ findPath' = NoPath
    /\ findErr' = TRUE
    /\ pc' = "return"
    /\ UNCHANGED <<parseVars, cleanVars, nameVars, matchVars, listVars, info, fs, path, visited>>

\* path == ".": return "", nil
FindNotFound ==
    /\ pc = "find"
    /\ path = Dot
    /\ findPath' = NoPath
    /\ findErr' = FALSE
    /\ pc' = "return"
    /\ UNCHANGED <<parseVars, cleanVars, nameVars, matchVars, listVars, info, fs, path, visited>>

FindNext == FindReadDirFails \/ FindCandidate \/ FindAscend \/ FindNotFound

\* findLicense is not running
FindIdle ==
    /\ info = NoInfo
    /\ fs = <<>>
    /\ path = Dot
    /\ visited = <<>>
    /\ findPath = NoPath
    /\ findErr = FALSE

\* the first step of listLicenses that fails, and what go list printed
GoList(step, output) == [step |-> step, output |-> output]

\* every step succeeds
AllSucceed == GoList("none", {})

\* listLicenses is not running
ListIdle ==
    /\ infos = <<>>
    /\ stdSet = {}
    /\ li = 0
    /\ matched = <<>>
    /\ licenses = <<>>
    /\ listErr = FALSE
    /\ kept = <<>>
    /\ groupErr = FALSE
    /\ golist = AllSucceed
    /\ errKind = ""
    /\ findCalls = <<>>
    /\ matchCalls = <<>>

\* scoreLicenseName is not called on its own
NameIdle ==
    /\ fname = <<>>
    /\ fscore = 0
    /\ fpicked = <<>>

\* cleanLicenseData and makeWordSet are not called on their own
CleanIdle ==
    /\ raw = <<>>
    /\ cleaned = <<>>
    /\ wordSet = <<>>
    /\ recleaned = <<>>

\* no template, no result
NoParsed == [Title |-> <<>>, Nickname |-> <<>>, Words |-> <<>>, Err |-> FALSE]

NoLoad == [Templates |-> <<>>, Err |-> FALSE]

\* loadTemplates is not running
ParseIdle ==
    /\ contents = <<>>
    /\ ai = 0
    /\ lineNo = 0
    /\ state = 0
    /\ title = <<>>
    /\ nickname = <<>>
    /\ bodyText = <<>>
    /\ parsed = NoParsed
    /\ loaded = <<>>
    /\ loadRet = NoLoad

\* segments of the import paths findLicense is tried on
SegNames == <<"a", "x", "p", "q", "r">>

\* what a directory may hold: license-like files, a directory named like one,
\* a source file
FindEntries ==
    { Entry(<<"LICENSE">>, TRUE, <<>>), Entry(<<"LICENSE">>, FALSE, <<>>),
      Entry(<<"LICENCE">>, TRUE, <<>>),
      Entry(<<"COPYING">>, TRUE, <<>>), Entry(<<"main", ".", "go">>, TRUE, <<>>) }

FindInit ==
    /\ MatchIdle
    /\ pc = "find"
    /\ \E d \in 1..MaxDepth :
         info = PkgInfo(<<SegNames[d]>>, "r1", SubSeq(SegNames, 1, d), NoError)
    /\ fs \in [Chain(info) -> Dirs(FindEntries)]
    /\ path = info.ImportPath
    /\ visited = <<>>
    /\ findPath = NoPath
    /\ findErr = FALSE
    /\ ListIdle
    /\ NameIdle
    /\ CleanIdle
    /\ ParseIdle

\* what a directory of the walks below may hold
WalkEntries == { Entry(<<"LICENSE">>, TRUE, <<>>), Entry(<<"main", ".", "go">>, TRUE, <<>>) }

\* findLicense on an import path with or without a leading separator
WalkInit ==
    /\ MatchIdle
    /\ pc = "find"
    /\ \E d \in 1..MaxDepth : \E lead \in {<<>>, <<Slash>>} :
         info = PkgInfo(<<SegNames[d]>>, "r1", lead \o SubSeq(SegNames, 1, d), NoError)
    /\ fs \in [Chain(info) -> Dirs(WalkEntries)]
    /\ path = info.ImportPath
    /\ visited = <<>>
    /\ findPath = NoPath
    /\ findErr = FALSE
    /\ ListIdle
    /\ NameIdle
    /\ CleanIdle
    /\ ParseIdle

(***************************************************************************)
(* matchTemplates as one function, for its callers. The maps are iterated *)
(* in one of their orders.                                                *)
(***************************************************************************)
iterationOrder(S) == CHOOSE p \in Perms(S) : TRUE

RECURSIVE matchFrom(_, _, _, _)
matchFrom(words, tmpls, i, b) ==
    IF i > Len(tmpls) THEN b
    ELSE matchFrom(words, tmpls, i + 1,
            updateBest(b, i, matchOne(words, tmpls[i],
                                      iterationOrder(DOMAIN words),
                                      iterationOrder(DOMAIN tmpls[i].Words))))

matchTemplates(data, tmpls) == MatchResult(matchFrom(makeWordSet(data), tmpls, 1, NoBest))

(***************************************************************************)
(* Report rows.                                                           *)
(***************************************************************************)
License(package, score, template, lpath, err, extra, missing) ==
    [Package |-> package, Score |-> score, Template |-> template, Path |-> lpath,
     Err |-> err, ExtraWords |-> extra, MissingWords |-> missing]

\* License{Package: info.Name, Err: info.Error.Err}
errorRow(pkg) ==
    License(pkg.Name, Frac(0, 1), NoTemplate, NoPath, pkg.Error, <<>>, <<>>)

\* License{Package: info.ImportPath, Path: path}
plainRow(pkg, lpath) ==
    License(pkg.ImportPath, Frac(0, 1), NoTemplate, lpath, "", <<>>, <<>>)

\* the row with the fields of MatchResult m copied in
matchedRow(pkg, lpath, m) ==
    License(pkg.ImportPath, m.Score, m.Template, lpath, "", m.ExtraWords, m.MissingWords)

\* fpath := filepath.Join(info.Root, "src", path)
fpathOf(pkg, lpath) == <<pkg.Root, lpath>>

\* the directory entry of the file at fpath
fileAt(fpath) ==
    LET dir == fs[<<fpath[1], Dir(fpath[2])>>]
    IN CHOOSE e \in Range(dir.Entries) : text(e.Name) = fpath[2][Len(fpath[2])]

(***************************************************************************)
(* listLicenses before its loop: the templates are loaded and the go tool *)
(* is run to expand the package expressions, to list their dependencies,  *)
(* to list the standard packages and to describe the packages. golist     *)
(* names the first of these steps that fails, if one does, and what the   *)
(* output of the go tool contains then.                                   *)
(***************************************************************************)
\* the texts the code looks for in the output of a failed go list
Markers == {"cannot find package", "no buildable Go source files", "cmd: no Go files in"}

\* every failure is an error of the plain kind
expandPackagesPlain(output) == "error"

\* the error of expandPackages when go list fails with this output
expandPackages(output) ==
    IF output \cap Markers # {} THEN "MissingError" ELSE "error"

\* the error of listPackagesAndDeps: that of expandPackages, or that of its own
\* go list -f
listPackagesAndDeps(g) ==
    IF g.step = "expand" THEN expandPackages(g.output)
    ELSE IF g.output \cap {"cannot find package", "no buildable Go source files"} # {}
         THEN "MissingError"
         ELSE "error"

\* loadTemplates fails: return nil, err
ListTemplatesFail ==
    /\ pc = "start"
    /\ golist.step = "loadTemplates"
    /\ licenses' = <<>>
    /\ listErr' = TRUE
    /\ errKind' = "error"
    /\ pc' = "listed"
    /\ UNCHANGED <<parseVars, cleanVars, nameVars, matchVars, findVars, golist, findCalls, matchCalls,
                   infos, stdSet, li, matched, kept, groupErr>>

\* listPackagesAndDeps fails: a *MissingError is returned as it is, any other
\* error inside a new one
ListDepsFail ==
    /\ pc = "start"
    /\ golist.step \in {"expand", "deps"}
    /\ licenses' = <<>>
    /\ listErr' = TRUE
    /\ errKind' = IF listPackagesAndDeps(golist) = "MissingError"
                  THEN "MissingError" ELSE "error"
    /\ pc' = "listed"
    /\ UNCHANGED <<parseVars, cleanVars, nameVars, matchVars, findVars, golist, findCalls, matchCalls,
                   infos, stdSet, li, matched, kept, groupErr>>

\* listStandardPackages or getPackagesInfo fails: an error of the plain kind
ListInfosFail ==
    /\ pc = "start"
    /\ golist.step \in {"std", "info"}
    /\ licenses' = <<>>
    /\ listErr' = TRUE
    /\ errKind' = "error"
    /\ pc' = "listed"
    /\ UNCHANGED <<parseVars, cleanVars, nameVars, matchVars, findVars, golist, findCalls, matchCalls,
                   infos, stdSet, li, matched, kept, groupErr>>

\* every step succeeds: on to the loop
ListBegin ==
    /\ pc = "start"
    /\ golist = AllSucceed
    /\ pc' = "list"
    /\ UNCHANGED <<parseVars, cleanVars, nameVars, matchVars, findVars, listVars>>

(***************************************************************************)
(* listLicenses: the loop over infos, one package per pass.               *)
(***************************************************************************)
\* the cache is not looked at
cachedNever(fpath) == FALSE

\* m, ok := matched[fpath]
cached(fpath) == fpath \in DOMAIN matched

\* info.Error != nil: the error is returned and the run ends
ListErrorAborts ==
    /\ pc = "list"
    /\ li < Len(infos)
    /\ infos[li + 1].Error # NoError
    /\ licenses' = <<>>
    /\ listErr' = TRUE
    /\ errKind' = "error"
    /\ pc' = "listed"
    /\ UNCHANGED <<parseVars, cleanVars, nameVars, matchVars, findVars, golist, findCalls, matchCalls,
                   infos, stdSet, li, matched, kept, groupErr>>

\* info.Error != nil: a row with the error, and on to the next package
ListErrorRow ==
    /\ pc = "list"
    /\ li < Len(infos)
    /\ infos[li + 1].Error # NoError
    /\ licenses' = Append(licenses, errorRow(infos[li + 1]))
    /\ li' = li + 1
    /\ UNCHANGED <<parseVars, cleanVars, nameVars, pc, matchVars, findVars, golist, errKind, findCalls, matchCalls,
                   infos, stdSet, matched, listErr, kept, groupErr>>

\* stdSet[info.ImportPath]: a row without a path
ListStandardRow ==
    /\ pc = "list"
    /\ li < Len(infos)
    /\ infos[li + 1].Error = NoError
    /\ infos[li + 1].ImportPath \in stdSet
    /\ licenses' = Append(licenses, plainRow(infos[li + 1], NoPath))
    /\ li' = li + 1
    /\ UNCHANGED <<parseVars, cleanVars, nameVars, pc, matchVars, findVars, golist, errKind, findCalls, matchCalls,
                   infos, stdSet, matched, listErr, kept, groupErr>>

\* stdSet[info.ImportPath]: no row
ListSkipStandard ==
    /\ pc = "list"
    /\ li < Len(infos)
    /\ infos[li + 1].Error = NoError
    /\ infos[li + 1].ImportPath \in stdSet
    /\ li' = li + 1
    /\ UNCHANGED <<parseVars, cleanVars, nameVars, pc, matchVars, findVars, golist, errKind, findCalls, matchCalls,
                   infos, stdSet, matched, licenses,
                   listErr, kept, groupErr>>

\* path, err := findLicense(info)
ListFind ==
    /\ pc = "list"
    /\ li < Len(infos)
    /\ infos[li + 1].Error = NoError
    /\ infos[li + 1].ImportPath \notin stdSet
    /\ info' = infos[li + 1]
    /\ path' = infos[li + 1].ImportPath
    /\ visited' = <<>>
    /\ findPath' = NoPath
    /\ findErr' = FALSE
    /\ pc' = "find"
    /\ findCalls' = Append(findCalls, infos[li + 1].ImportPath)
    /\ UNCHANGED <<parseVars, cleanVars, nameVars, matchVars, fs, infos, stdSet, li, matched, licenses, listErr,
                   kept, groupErr, golist, errKind, matchCalls>>

\* findLicense failed: return nil, err
ListFindFails ==
    /\ pc = "return"
    /\ findErr
    /\ licenses' = <<>>
    /\ listErr' = TRUE
    /\ errKind' = "error"
    /\ pc' = "listed"
    /\ UNCHANGED <<parseVars, cleanVars, nameVars, matchVars, findVars, golist, findCalls, matchCalls,
                   infos, stdSet, li, matched, kept, groupErr>>

\* path == "": the row is appended as it is
ListNoLicense ==
    /\ pc = "return"
    /\ ~findErr
    /\ findPath = NoPath
    /\ licenses' = Append(licenses, plainRow(info, findPath))
    /\ li' = li + 1
    /\ pc' = "list"
    /\ UNCHANGED <<parseVars, cleanVars, nameVars, matchVars, findVars, golist, errKind, findCalls, matchCalls,
                   infos, stdSet, matched, listErr, kept, groupErr>>

\* the path is in the cache: its MatchResult is copied into the row
ListCached ==
    /\ pc = "return"
    /\ ~findErr
    /\ findPath # NoPath
    /\ cached(fpathOf(info, findPath))
    /\ licenses' = Append(licenses,
                          matchedRow(info, findPath, matched[fpathOf(info, findPath)]))
    /\ li' = li + 1
    /\ pc' = "list"
    /\ UNCHANGED <<parseVars, cleanVars, nameVars, matchVars, findVars, golist, errKind, findCalls, matchCalls,
                   infos, stdSet, matched, listErr, kept, groupErr>>

\* ioutil.ReadFile(fpath) fails: return nil, err
ListReadFileFails ==
    /\ pc = "return"
    /\ ~findErr
    /\ findPath # NoPath
    /\ ~cached(fpathOf(info, findPath))
    /\ fileAt(fpathOf(info, findPath)).Unreadable
    /\ licenses' = <<>>
    /\ listErr' = TRUE
    /\ errKind' = "error"
    /\ pc' = "listed"
    /\ UNCHANGED <<parseVars, cleanVars, nameVars, matchVars, findVars, golist, findCalls, matchCalls,
                   infos, stdSet, li, matched, kept, groupErr>>

\* the file is read, matched against the templates and cached
ListMatch ==
    /\ pc = "return"
    /\ ~findErr
    /\ findPath # NoPath
    /\ ~cached(fpathOf(info, findPath))
    /\ ~fileAt(fpathOf(info, findPath)).Unreadable
    /\ LET fpath == fpathOf(info, findPath)
           m == matchTemplates(fileAt(fpath).Data, templates)
       IN /\ matched' = matched @@ (fpath :> m)
          /\ licenses' = Append(licenses, matchedRow(info, findPath, m))
          /\ matchCalls' = Append(matchCalls, [Package |-> info.ImportPath, Fpath |-> fpath])
    /\ li' = li + 1
    /\ pc' = "list"
    /\ UNCHANGED <<parseVars, cleanVars, nameVars, matchVars, findVars, golist, errKind, findCalls,
                   infos, stdSet, listErr, kept, groupErr>>

\* return licenses, nil
ListReturn ==
    /\ pc = "list"
    /\ li = Len(infos)
    /\ pc' = "listed"
    /\ UNCHANGED <<parseVars, cleanVars, nameVars, matchVars, findVars, listVars>>

(***************************************************************************)
(* groupLicenses.                                                         *)
(***************************************************************************)
\* the prefix tree over the import path segments of rows v: its nodes, each
\* named by the segments from the root
trieOf(v) == UNION {Prefixes(v[i].Package) : i \in DOMAIN v}

childrenOf(trie, n) ==
    {q \in trie : Len(q) = Len(n) + 1 /\ SubSeq(q, 1, Len(n)) = n}

\* for { if len(n.Children) != 1 { break }; prefix = append(prefix, c.Name); n = c }
RECURSIVE descend(_, _)
descend(trie, n) ==
    IF Cardinality(childrenOf(trie, n)) # 1 THEN n
    ELSE descend(trie, CHOOSE c \in childrenOf(trie, n) : TRUE)

\* variant: no prefix is found
longestCommonPrefixNone(v) == <<>>

longestCommonPrefix(v) == descend(trieOf(v), <<>>)

\* paths[l.Path] after the first loop: the rows of one path, in input order
rowsOfPath(rows, lpath) ==
    LET Same(l) == l.Path = lpath
    IN SelectSeq(rows, Same)

\* only three rows or more make a partition to merge
sharedPathsOverTwo(rows) ==
    {lpath \in {rows[i].Path : i \in DOMAIN rows} \ {NoPath} :
        Len(rowsOfPath(rows, lpath)) > 2}

sharedPaths(rows) ==
    {lpath \in {rows[i].Path : i \in DOMAIN rows} \ {NoPath} :
        Len(rowsOfPath(rows, lpath)) > 1}

\* the last row of the partition is the one kept
representativeLast(v) == [v[Len(v)] EXCEPT !.Package = longestCommonPrefix(v)]

\* l := v[0]; l.Package = prefix
representative(v) == [v[1] EXCEPT !.Package = longestCommonPrefix(v)]

\* paths[l.Path][0] after the second loop
groupedRow(rows, lpath) ==
    IF lpath \in sharedPaths(rows)
    THEN representative(rowsOfPath(rows, lpath))
    ELSE rowsOfPath(rows, lpath)[1]

\* the rows without a path are skipped, as in the first loop
RECURSIVE keepFromSkipEmpty(_, _, _)
keepFromSkipEmpty(rows, i, done) ==
    IF i > Len(rows) THEN <<>>
    ELSE IF rows[i].Path = NoPath
         THEN keepFromSkipEmpty(rows, i + 1, done)
         ELSE IF rows[i].Path \notin done
              THEN <<groupedRow(rows, rows[i].Path)>>
                   \o keepFromSkipEmpty(rows, i + 1, done \cup {rows[i].Path})
              ELSE keepFromSkipEmpty(rows, i + 1, done)

\* the rows with a path are emitted after all the rows without one
RECURSIVE keepFromPathsLast(_, _, _)
keepFromPathsLast(rows, i, done) ==
    IF i > Len(rows) THEN <<>>
    ELSE IF rows[i].Path = NoPath
         THEN <<rows[i]>> \o keepFromPathsLast(rows, i + 1, done)
         ELSE IF rows[i].Path \notin done
              THEN keepFromPathsLast(rows, i + 1, done \cup {rows[i].Path})
                   \o <<groupedRow(rows, rows[i].Path)>>
              ELSE keepFromPathsLast(rows, i + 1, done)

\* the third loop, from row i on; done: the paths deleted from the map
RECURSIVE keepFrom(_, _, _)
keepFrom(rows, i, done) ==
    IF i > Len(rows) THEN <<>>
    ELSE IF rows[i].Path = NoPath
         THEN <<rows[i]>> \o keepFrom(rows, i + 1, done)
         ELSE IF rows[i].Path \notin done
              THEN <<groupedRow(rows, rows[i].Path)>>
                   \o keepFrom(rows, i + 1, done \cup {rows[i].Path})
              ELSE keepFrom(rows, i + 1, done)

groupLicenses(rows) ==
    IF \E lpath \in sharedPaths(rows) : longestCommonPrefix(rowsOfPath(rows, lpath)) = <<>>
    THEN [Err |-> TRUE, Rows |-> <<>>]
    ELSE [Err |-> FALSE, Rows |-> keepFrom(rows, 1, {})]

\* printLicenses without -a: licenses, err = groupLicenses(licenses)
Group ==
    /\ pc = "listed"
    /\ ~listErr
    /\ kept' = groupLicenses(licenses).Rows
    /\ groupErr' = groupLicenses(licenses).Err
    /\ pc' = "grouped"
    /\ UNCHANGED <<parseVars, cleanVars, nameVars, matchVars, findVars, golist, errKind, findCalls, matchCalls,
                   infos, stdSet, li, matched, licenses, listErr>>

ListNext ==
    \/ ListTemplatesFail \/ ListDepsFail \/ ListInfosFail \/ ListBegin
    \/ ListErrorRow \/ ListSkipStandard \/ ListFind
    \/ FindReadDirFails \/ FindCandidate \/ FindAscend \/ FindNotFound
    \/ ListFindFails \/ ListNoLicense \/ ListCached \/ ListReadFileFails \/ ListMatch
    \/ ListReturn \/ Group

\* the import paths of the packages listed, in sort.Strings order
PkgOrder == << <<"a">>, <<"a", "x">>, <<"a", "y">> >>

\* the source roots of GOPATH
Roots == {"r1", "r2"}

\* the template bodies of the runs of listLicenses
ListCorpus == << <<"a", "b">>, <<"c", "c", "b">> >>

\* what a directory holds in the runs of listLicenses: nothing, or one license
\* file with one of two texts, or one that cannot be read
ListDirs ==
    { ReadDirFails, ReadDirOk({}),
      ReadDirOk({Entry(<<"LICENSE">>, TRUE, <<"a", "b">>)}),
      ReadDirOk({Entry(<<"LICENSE">>, TRUE, <<"c">>)}),
      ReadDirOk({UnreadableEntry(<<"LICENSE">>)}) }

\* the package lists: up to MaxPkgs of the import paths, sorted
PkgChoices ==
    {c \in SUBSET (1..Len(PkgOrder)) : c # {} /\ Cardinality(c) <= MaxPkgs}

RECURSIVE selected(_, _)
selected(c, i) ==
    IF i > Len(PkgOrder) THEN <<>>
    ELSE (IF i \in c THEN <<PkgOrder[i]>> ELSE <<>>) \o selected(c, i + 1)

\* the packages findLicense is called for
Located == {infos[i] : i \in {j \in DOMAIN infos :
                infos[j].Error = NoError /\ infos[j].ImportPath \notin stdSet}}

\* the first failing step and the output of the go tool of a run that fails
\* before the loop
Failures ==
    {GoList(step, output) : step \in {"expand", "deps", "std"}, output \in SUBSET Markers}
    \cup {GoList("loadTemplates", {}), GoList("info", {})}

ListInit ==
    /\ pc = "start"
    /\ license = <<>>
    /\ assets = ListCorpus
    /\ ti = 0
    /\ bestScore = NoBest.Score
    /\ bestTemplate = NoBest.Template
    /\ bestExtra = NoBest.Extra
    /\ bestMissing = NoBest.Missing
    /\ iter = NoIter
    /\ result = NoResult
    /\ prev = NoResult
    /\ second = FALSE
    /\ \/ /\ golist = AllSucceed
          /\ \E c \in PkgChoices :
               LET paths == selected(c, 1)
               IN \E roots \in [DOMAIN paths -> Roots],
                     errs \in [DOMAIN paths -> {NoError, "err"}],
                     named \in [DOMAIN paths -> BOOLEAN] :
                    /\ \A i \in DOMAIN paths : errs[i] = NoError => named[i]
                    /\ infos = [i \in DOMAIN paths |->
                                  PkgInfo(IF named[i] THEN <<paths[i][Len(paths[i])]>>
                                          ELSE paths[i],
                                          roots[i], paths[i], errs[i])]
          /\ stdSet \in SUBSET {infos[i].ImportPath : i \in DOMAIN infos}
          /\ fs \in [UNION {Chain(pkg) : pkg \in Located} -> ListDirs]
       \/ /\ golist \in Failures
          /\ infos = <<>>
          /\ stdSet = {}
          /\ fs = <<>>
    /\ info = NoInfo
    /\ path = Dot
    /\ visited = <<>>
    /\ findPath = NoPath
    /\ findErr = FALSE
    /\ li = 0
    /\ matched = <<>>
    /\ licenses = <<>>
    /\ listErr = FALSE
    /\ kept = <<>>
    /\ groupErr = FALSE
    /\ errKind = ""
    /\ findCalls = <<>>
    /\ matchCalls = <<>>
    /\ NameIdle
    /\ CleanIdle
    /\ ParseIdle

(***************************************************************************)
(* Specifications.                                                        *)
(***************************************************************************)
\* matchTemplates on every candidate and corpus of the bounds
Init == MatchInit /\ FindIdle /\ ListIdle /\ NameIdle /\ CleanIdle /\ ParseIdle

Next == MatchNext

Spec == Init /\ [][Next]_vars

\* findLicense on every package and directory chain of the bounds
SpecFind == FindInit /\ [][FindNext]_vars

\* findLicense keeps running until it returns
SpecWalk == WalkInit /\ [][FindNext]_vars /\ WF_vars(FindNext)

\* listLicenses, then groupLicenses, on every package list and file system of
\* the bounds
SpecList == ListInit /\ [][ListNext]_vars

(***************************************************************************)
(* groupLicenses on rows of its own: any rows of distinct packages, in    *)
(* any order, whichever paths they carry.                                 *)
(***************************************************************************)
\* the longest row list
MaxRows == 4

GroupPkgs == {<<"a">>, <<"a", "x">>, <<"a", "y">>, <<"b">>}

GroupPaths == {<<"a", "LICENSE">>, <<"b", "LICENSE">>}

\* two MatchResults that differ in every field
GroupMatches ==
    { [Score |-> Frac(1, 1), Template |-> 1, ExtraWords |-> <<>>, MissingWords |-> <<>>],
      [Score |-> Frac(1, 2), Template |-> 2, ExtraWords |-> <<"c">>,
       MissingWords |-> <<"a">>] }

\* the rows listLicenses may build for a package: the row of one that failed
\* to resolve, of one without a license file, of one with a matched file
GroupKinds == {<<"error">>, <<"plain">>} \cup (GroupPaths \X GroupMatches)

GroupRow(p, kind) ==
    IF kind = <<"error">> THEN errorRow(PkgInfo(p, "r1", p, "err"))
    ELSE IF kind = <<"plain">> THEN plainRow(PkgInfo(p, "r1", p, NoError), NoPath)
    ELSE matchedRow(PkgInfo(p, "r1", p, NoError), kind[1], kind[2])

GroupInit ==
    /\ MatchIdle
    /\ FindIdle
    /\ pc = "listed"
    /\ infos = <<>>
    /\ stdSet = {}
    /\ li = 0
    /\ matched = <<>>
    /\ \E n \in 0..MaxRows :
         \E pkgs \in {f \in [1..n -> GroupPkgs] : \A i, j \in 1..n : i # j => f[i] # f[j]},
            kinds \in [1..n -> GroupKinds] :
              licenses = [i \in 1..n |-> GroupRow(pkgs[i], kinds[i])]
    /\ listErr = FALSE
    /\ kept = <<>>
    /\ groupErr = FALSE
    /\ golist = AllSucceed
    /\ errKind = ""
    /\ findCalls = <<>>
    /\ matchCalls = <<>>
    /\ NameIdle
    /\ CleanIdle
    /\ ParseIdle

GroupNext == Group

SpecGroup == GroupInit /\ [][GroupNext]_vars

(***************************************************************************)
(* scoreLicenseName on every file name of the bounds, and findLicense's   *)
(* loop on a directory that holds a regular file of that name only.       *)
(***************************************************************************)
\* the longest file name, in pieces
MaxName == 4

NamePieces ==
    {"UN", "LICENSE", "licence", "COPYING", "copyright", ".", "-", "2", "md", "TXT", "go"}

NameInit ==
    /\ MatchIdle
    /\ FindIdle
    /\ ListIdle
    /\ pc = "name"
    /\ fname \in SeqsUpTo(NamePieces, MaxName) \ {<<>>}
    /\ fscore = 0
    /\ fpicked = <<>>
    /\ CleanIdle
    /\ ParseIdle

ScoreName ==
    /\ pc = "name"
    /\ fscore' = scoreLicenseName(fname)
    /\ fpicked' = bestNameIn([Err |-> FALSE, Entries |-> <<Entry(fname, TRUE, <<>>)>>])
    /\ pc' = "scored"
    /\ UNCHANGED <<parseVars, cleanVars, matchVars, findVars, listVars, fname>>

NameNext == ScoreName

SpecName == NameInit /\ [][NameNext]_vars

(***************************************************************************)
(* cleanLicenseData and makeWordSet on every text of the bounds, and      *)
(* cleanLicenseData again on what it returned.                            *)
(***************************************************************************)
\* the longest text, in phrases
MaxText == 6

\* what a text is made of: the word Copyright with its blank, a mark, a year,
\* a name, a blank, a line end
Phrases == { <<"Copyright", " ">>, <<"(c)">>, <<"2015">>, <<"John">>, <<" ">>, <<"\n">> }

RECURSIVE concat(_)
concat(ps) == IF ps = <<>> THEN <<>> ELSE Head(ps) \o concat(Tail(ps))

CleanInit ==
    /\ MatchIdle
    /\ FindIdle
    /\ ListIdle
    /\ NameIdle
    /\ ParseIdle
    /\ pc = "clean"
    /\ \E ps \in SeqsUpTo(Phrases, MaxText) : raw = concat(ps)
    /\ cleaned = <<>>
    /\ wordSet = <<>>
    /\ recleaned = <<>>

\* words := makeWordSet(data), which cleans the data first
MakeWordSet ==
    /\ pc = "clean"
    /\ cleaned' = cleanLicenseData(raw)
    /\ wordSet' = makeWordSet(findAll(cleanLicenseData(raw), 1, ""))
    /\ pc' = "cleaned"
    /\ UNCHANGED <<parseVars, matchVars, findVars, listVars, nameVars, raw, recleaned>>

\* cleanLicenseData on its own result
CleanAgain ==
    /\ pc = "cleaned"
    /\ recleaned' = cleanLicenseData(cleaned)
    /\ pc' = "recleaned"
    /\ UNCHANGED <<parseVars, matchVars, findVars, listVars, nameVars, raw, cleaned, wordSet>>

CleanNext == MakeWordSet \/ CleanAgain

SpecClean == CleanInit /\ [][CleanNext]_vars

(***************************************************************************)
(* loadTemplates and parseTemplate, one line of an asset per step. A line *)
(* is the sequence of its pieces, without its line end.                   *)
(***************************************************************************)
\* the longest asset, in lines
MaxLines == 4

Delim == <<"---", " ">>

TitleLine == <<"title", ":", " ", "MIT">>

NickLine == <<" ", "nickname", ":", "X11">>

TextLine == <<"a", " ", "b">>

\* a line longer than the buffer of bufio.Scanner: Scan stops with an error
TooLong == <<"toolong">>

LineKinds == {Delim, TitleLine, NickLine, TextLine, TooLong}

\* an asset as the repository embeds them
WellFormed == <<TextLine, Delim, TitleLine, NickLine, Delim, TextLine>>

RECURSIVE TrimLeft(_)
TrimLeft(l) == IF l # <<>> /\ Head(l) = " " THEN TrimLeft(Tail(l)) ELSE l

RECURSIVE TrimRight(_)
TrimRight(l) ==
    IF l # <<>> /\ l[Len(l)] = " " THEN TrimRight(SubSeq(l, 1, Len(l) - 1)) ELSE l

\* strings.TrimSpace
TrimSpace(l) == TrimRight(TrimLeft(l))

\* strings.HasPrefix(line, "title:"), for key "title"
HasPrefix(l, key) == Len(l) >= 2 /\ l[1] = key /\ l[2] = ":"

\* strings.TrimSpace(line[len("title:"):])
afterKey(l) == TrimSpace(SubSeq(l, 3, Len(l)))

\* variant: a line of dashes in the body opens the front matter again
nextStateReopens(st, line) ==
    IF line = <<"---">> THEN (IF st = 0 THEN 1 ELSE IF st = 1 THEN 2 ELSE 1) ELSE st

\* the state after a line
nextState(st, line) ==
    IF st = 0 THEN (IF line = <<"---">> THEN 1 ELSE st)
    ELSE IF st = 1 THEN (IF line = <<"---">> THEN 2 ELSE st)
    ELSE st

\* the asset parseTemplate is reading
content == contents[ai]

\* scanner.Scan() returns true
scanOk == lineNo < Len(content) /\ content[lineNo + 1] # TooLong

LoadInit ==
    /\ MatchIdle
    /\ FindIdle
    /\ ListIdle
    /\ NameIdle
    /\ CleanIdle
    /\ pc = "load"
    /\ \E before, after \in SeqsUpTo({WellFormed}, MaxTemplates - 1) :
         \E any \in SeqsUpTo(LineKinds, MaxLines) :
            /\ Len(before) + Len(after) < MaxTemplates
            /\ contents = before \o <<any>> \o after
    /\ ai = 0
    /\ lineNo = 0
    /\ state = 0
    /\ title = <<>>
    /\ nickname = <<>>
    /\ bodyText = <<>>
    /\ parsed = NoParsed
    /\ loaded = <<>>
    /\ loadRet = NoLoad

\* for _, a := range assets.Assets: parseTemplate(a.Content) begins
LoadAsset ==
    /\ pc = "load"
    /\ ai < Len(contents)
    /\ ai' = ai + 1
    /\ lineNo' = 0
    /\ state' = 0
    /\ title' = <<>>
    /\ nickname' = <<>>
    /\ bodyText' = <<>>
    /\ pc' = "parse"
    /\ UNCHANGED <<matchVars, findVars, listVars, nameVars, cleanVars,
                   contents, parsed, loaded, loadRet>>

\* for scanner.Scan() { ... }: one line
ParseLine ==
    /\ pc = "parse"
    /\ scanOk
    /\ LET line == TrimSpace(content[lineNo + 1])
       IN /\ state' = nextState(state, line)
          /\ title' = IF state = 1 /\ line # <<"---">> /\ HasPrefix(line, "title")
                      THEN afterKey(line) ELSE title
          /\ nickname' = IF /\ state = 1
                            /\ line # <<"---">>
                            /\ ~HasPrefix(line, "title")
                            /\ HasPrefix(line, "nickname")
                         THEN afterKey(line) ELSE nickname
    /\ bodyText' = IF state = 2 THEN bodyText \o content[lineNo + 1] \o <<"\n">>
                   ELSE bodyText
    /\ lineNo' = lineNo + 1
    /\ UNCHANGED <<matchVars, findVars, listVars, nameVars, cleanVars,
                   pc, contents, ai, parsed, loaded, loadRet>>

\* t.Words = makeWordSet(text); return &t, scanner.Err()
ParseReturn ==
    /\ pc = "parse"
    /\ ~scanOk
    /\ parsed' = [Title |-> title, Nickname |-> nickname,
                  Words |-> makeWordSet(findAll(cleanLicenseData(bodyText), 1, "")),
                  Err |-> lineNo < Len(content)]
    /\ pc' = "parsed"
    /\ UNCHANGED <<matchVars, findVars, listVars, nameVars, cleanVars,
                   contents, ai, lineNo, state, title, nickname, bodyText,
                   loaded, loadRet>>

\* variant: the templates loaded so far are returned with the error
LoadFailsKeeps ==
    /\ pc = "parsed"
    /\ parsed.Err
    /\ loadRet' = [Templates |-> loaded, Err |-> TRUE]
    /\ pc' = "loaded"
    /\ UNCHANGED <<matchVars, findVars, listVars, nameVars, cleanVars,
                   contents, ai, lineNo, state, title, nickname, bodyText,
                   parsed, loaded>>

\* if err != nil { return nil, err }; the nil slice is the empty list
LoadFails ==
    /\ pc = "parsed"
    /\ parsed.Err
    /\ loadRet' = [Templates |-> <<>>, Err |-> TRUE]
    /\ pc' = "loaded"
    /\ UNCHANGED <<matchVars, findVars, listVars, nameVars, cleanVars,
                   contents, ai, lineNo, state, title, nickname, bodyText,
                   parsed, loaded>>

\* templates = append(templates, templ)
LoadAppend ==
    /\ pc = "parsed"
    /\ ~parsed.Err
    /\ loaded' = Append(loaded, [Title |-> parsed.Title, Nickname |-> parsed.Nickname,
                                  Words |-> parsed.Words])
    /\ pc' = "load"
    /\ UNCHANGED <<matchVars, findVars, listVars, nameVars, cleanVars,
                   contents, ai, lineNo, state, title, nickname, bodyText,
                   parsed, loadRet>>

\* return templates, nil
LoadReturn ==
    /\ pc = "load"
    /\ ai = Len(contents)
    /\ loadRet' = [Templates |-> loaded, Err |-> FALSE]
    /\ pc' = "loaded"
    /\ UNCHANGED <<matchVars, findVars, listVars, nameVars, cleanVars,
                   contents, ai, lineNo, state, title, nickname, bodyText,
                   parsed, loaded>>

LoadNext ==
    LoadAsset \/ ParseLine \/ ParseReturn \/ LoadFails \/ LoadAppend \/ LoadReturn

\* loadTemplates on assets of which one is any text of the bounds
SpecLoad == LoadInit /\ [][LoadNext]_vars

\* a run of loadTemplates alone, or a run of listLicenses
FatalInit == LoadInit \/ ListInit

FatalNext == LoadNext \/ ListNext

SpecFatal == FatalInit /\ [][FatalNext]_vars

(***************************************************************************)
(* Properties of the scorer. They are stated on the token streams, not on *)
(* the maps and lists the code builds from them.                          *)
(***************************************************************************)
\* distinct tokens of the candidate, and of the i-th template
CandSet == Range(license)

TmplSet(i) == Range(assets[i])

DiceNum(i) == 2 * Cardinality(CandSet \cap TmplSet(i))

DiceDen(i) == Cardinality(CandSet) + Cardinality(TmplSet(i))

\* the two word sets are not both empty
Defined(i) == DiceDen(i) > 0

ScoreEquals(s, n, d) == ~IsNaN(s) /\ s.num * d = n * s.den

ScoreInUnit(s) == ~IsNaN(s) /\ 0 <= s.num /\ s.num <= s.den

ScoreIsOne(s) == ~IsNaN(s) /\ s.num = s.den

ScoreIsZero(s) == ~IsNaN(s) /\ s.num = 0

HasDuplicates(stream) == Len(stream) > Cardinality(Range(stream))

\* the tokens of S in the order of their first occurrence in stream
FirstIndex(stream, w) == CHOOSE i \in DOMAIN stream :
    stream[i] = w /\ \A k \in 1..(i - 1) : stream[k] # w

InFirstOccurrenceOrder(stream, S) == CHOOSE p \in Perms(S) :
    \A i, j \in DOMAIN p : i < j => FirstIndex(stream, p[i]) < FirstIndex(stream, p[j])

\* C1: the score of the pair (candidate, template ti) is 2*|C \cap T| / (|C| + |T|)
\* over the sets of distinct tokens, whenever C and T are not both empty.
C1_ScoreIsDice ==
    (ti >= 1 /\ Defined(ti)) => ScoreEquals(iter.score, DiceNum(ti), DiceDen(ti))

\* a pair with repeated tokens on both sides and one token in common of two each
C1_Witness ==
    /\ ti >= 1
    /\ HasDuplicates(license)
    /\ HasDuplicates(assets[ti])
    /\ iter.score = Frac(2, 4)

\* C2, as claimed: for every pair 0 <= score <= 1, and score = 1 iff the word
\* sets are equal.
C2_ScoreBoundsAllPairs ==
    ti >= 1 => /\ ScoreInUnit(iter.score)
               /\ ScoreIsOne(iter.score) <=> (CandSet = TmplSet(ti))

\* C2, amended: for every pair whose word sets are not both empty,
\* 0 <= score <= 1, and score = 1 iff the word sets are equal.
C2_ScoreBounds ==
    (ti >= 1 /\ Defined(ti)) =>
        /\ ScoreInUnit(iter.score)
        /\ ScoreIsOne(iter.score) <=> (CandSet = TmplSet(ti))

\* equal word sets from different token streams score 1
C2_Witness ==
    /\ ti >= 1
    /\ license # assets[ti]
    /\ CandSet = TmplSet(ti)
    /\ CandSet # {}
    /\ ScoreIsOne(iter.score)

\* the templates whose score against the candidate is defined
Scored == {i \in DOMAIN assets : Defined(i)}

AtLeast(i, j) == DiceNum(i) * DiceDen(j) >= DiceNum(j) * DiceDen(i)

Greatest == {i \in Scored : \A j \in Scored : AtLeast(i, j)}

FirstGreatest == CHOOSE i \in Greatest : \A j \in Greatest : i <= j

\* C3: the returned template is the first one, in corpus order, among those of
\* greatest score, and the returned score is its score.
C3_FirstGreatestWins ==
    (pc = "done" /\ Scored # {}) =>
        /\ result.Template = FirstGreatest
        /\ ScoreEquals(result.Score, DiceNum(FirstGreatest), DiceDen(FirstGreatest))

\* two templates of different vocabulary tie for the greatest score
C3_Witness ==
    /\ pc = "done"
    /\ Cardinality(Greatest) = 2
    /\ TmplSet(1) # TmplSet(2)
    /\ DiceNum(1) > 0
    /\ result.Template = 1

\* C4: with no template, or with an empty candidate and only empty templates,
\* the result is score 0 and no template; the sentinel -1 is never returned.
C4_NoSentinelReturned ==
    pc = "done" =>
        /\ (Scored = {}) => (ScoreIsZero(result.Score) /\ result.Template = NoTemplate)
        /\ result.Score # Sentinel

\* C5: ExtraWords are the candidate's tokens the returned template lacks, in
\* order of first occurrence in the candidate; MissingWords are the returned
\* template's tokens the candidate lacks, in order of first occurrence in the
\* template.
C5_WordLists ==
    (pc = "done" /\ result.Template # NoTemplate) =>
        LET T == TmplSet(result.Template)
        IN /\ result.ExtraWords = InFirstOccurrenceOrder(license, CandSet \ T)
           /\ result.MissingWords =
                  InFirstOccurrenceOrder(assets[result.Template], T \ CandSet)

\* the second template replaced the first as best, and the map was iterated in
\* another order than the one returned
C5_Witness ==
    /\ pc = "done"
    /\ result.Template = 2
    /\ Len(result.MissingWords) >= 2
    /\ wordTexts(bestMissing) # result.MissingWords
    /\ TmplSet(1) \ CandSet # TmplSet(2) \ CandSet

\* C6: ExtraWords and MissingWords are disjoint, every candidate token is
\* either common or extra and never both, |C| = common + |ExtraWords| and
\* |T| = common + |MissingWords|; in every loop iteration and in the result.
C6_VocabularyDelta ==
    /\ ti >= 1 =>
        /\ Range(wordTexts(iter.extra)) \cap Range(wordTexts(iter.missing)) = {}
        /\ Cardinality(CandSet) = iter.common + Len(iter.extra)
        /\ Cardinality(TmplSet(ti)) = iter.common + Len(iter.missing)
    /\ (pc = "done" /\ result.Template # NoTemplate) =>
        LET T == TmplSet(result.Template)
            E == Range(result.ExtraWords)
            M == Range(result.MissingWords)
            common == Cardinality({w \in CandSet : w \in T})
        IN /\ E \cap M = {}
           /\ \A w \in CandSet : (w \in T) # (w \in E)
           /\ Cardinality(CandSet) = common + Len(result.ExtraWords)
           /\ Cardinality(T) = common + Len(result.MissingWords)

\* a result with common, extra and missing words
C6_Witness ==
    /\ pc = "done"
    /\ result.Template # NoTemplate
    /\ CandSet \cap TmplSet(result.Template) # {}
    /\ result.ExtraWords # <<>>
    /\ result.MissingWords # <<>>

\* C7: a second call on the same data and corpus returns the same MatchResult,
\* whatever order the maps are iterated in.
C7_Deterministic ==
    (pc = "done" /\ second) => result = prev

\* the second call met the extra words in another order than the returned one
C7_Witness ==
    /\ pc = "done"
    /\ second
    /\ result.Template # NoTemplate
    /\ Len(result.ExtraWords) >= 2
    /\ wordTexts(bestExtra) # result.ExtraWords

(***************************************************************************)
(* Properties of the locator.                                             *)
(***************************************************************************)
dirAt(q) == fs[<<info.Root, q>>]

\* a readable directory with a regular file of file name score > 0
HasCandidate(dir) ==
    /\ ~dir.Err
    /\ \E i \in DOMAIN dir.Entries :
         dir.Entries[i].Regular /\ scoreLicenseName(dir.Entries[i].Name) > 0

IsCandidateOf(name, dir) ==
    \E i \in DOMAIN dir.Entries :
        /\ text(dir.Entries[i].Name) = name
        /\ dir.Entries[i].Regular
        /\ scoreLicenseName(dir.Entries[i].Name) > 0

\* the i-th directory of the upward walk from the package's own directory
WalkDir(i) == SubSeq(info.ImportPath, 1, Len(info.ImportPath) - i + 1)

\* C8: the walk reads the package directory and then its ancestors in turn, it
\* reads no directory after one that holds a candidate, and the path returned
\* is a candidate of the deepest directory that holds one, whatever the file
\* names higher up score.
C8_NearestWins ==
    /\ \A i \in DOMAIN visited : visited[i] = WalkDir(i)
    /\ \A i \in DOMAIN visited : i < Len(visited) => ~HasCandidate(dirAt(visited[i]))
    /\ (pc = "return" /\ ~findErr /\ findPath # NoPath) =>
        LET d == Dir(findPath)
        IN /\ d \in Prefixes(info.ImportPath)
           /\ IsCandidateOf(findPath[Len(findPath)], dirAt(d))
           /\ visited[Len(visited)] = d
           /\ \A q \in Prefixes(info.ImportPath) :
                Len(q) > Len(d) => ~HasCandidate(dirAt(q))

\* no candidate in the package directory, COPYING one level up, LICENSE two
\* levels up: COPYING is returned and the directory of LICENSE is never read
C8_Witness ==
    /\ pc = "return"
    /\ Len(info.ImportPath) = 3
    /\ ~HasCandidate(dirAt(info.ImportPath))
    /\ IsCandidateOf("LICENSE", dirAt(SubSeq(info.ImportPath, 1, 1)))
    /\ findPath = Join(SubSeq(info.ImportPath, 1, 2), "COPYING")
    /\ visited = <<info.ImportPath, SubSeq(info.ImportPath, 1, 2)>>

(***************************************************************************)
(* Properties of the report rows and of their grouping.                   *)
(***************************************************************************)
IsSegmentPrefix(p, m) == Len(p) <= Len(m) /\ SubSeq(m, 1, Len(p)) = p

\* the license paths two or more rows of licenses share
SharedPaths ==
    {lpath \in {licenses[i].Path : i \in DOMAIN licenses} \ {NoPath} :
        Cardinality({i \in DOMAIN licenses : licenses[i].Path = lpath}) >= 2}

Members(lpath) == {licenses[i].Package : i \in {j \in DOMAIN licenses : licenses[j].Path = lpath}}

CommonPrefixes(lpath) ==
    {q \in UNION {Prefixes(m) : m \in Members(lpath)} :
        \A m \in Members(lpath) : IsSegmentPrefix(q, m)}

\* C9: the rows sharing a license path are replaced by one row, whose package
\* identifier is a segment prefix of every member's import path, and no longer
\* segment prefix is common to all members.
C9_DeepestCommonPrefix ==
    (pc = "grouped" /\ ~groupErr) =>
        \A lpath \in SharedPaths :
            /\ Cardinality({i \in DOMAIN kept : kept[i].Path = lpath}) = 1
            /\ \A i \in DOMAIN kept : kept[i].Path = lpath =>
                /\ kept[i].Package \in CommonPrefixes(lpath)
                /\ \A q \in CommonPrefixes(lpath) : Len(q) <= Len(kept[i].Package)

\* C10: the rows of one license path carry the same score, template, extra
\* and missing words.
C10_SameMatchPerPath ==
    (pc \in {"listed", "grouped"} /\ ~listErr) =>
        \A i, j \in DOMAIN licenses :
            (licenses[i].Path # NoPath /\ licenses[i].Path = licenses[j].Path) =>
                /\ licenses[i].Score = licenses[j].Score
                /\ licenses[i].Template = licenses[j].Template
                /\ licenses[i].ExtraWords = licenses[j].ExtraWords
                /\ licenses[i].MissingWords = licenses[j].MissingWords

(***************************************************************************)
(* Properties of groupLicenses on any rows.                               *)
(***************************************************************************)
\* the rows of licenses that carry license path lpath are at these indices
IndicesOf(lpath) == {i \in DOMAIN licenses : licenses[i].Path = lpath}

FirstOf(lpath) == CHOOSE i \in IndicesOf(lpath) : \A j \in IndicesOf(lpath) : i <= j

\* the non-empty license paths of the input
InputPaths == {licenses[i].Path : i \in DOMAIN licenses} \ {NoPath}

SameButPackage(l, r) == [l EXCEPT !.Package = r.Package] = r

\* C11: groupLicenses returns an error and no rows exactly when some license
\* path is carried by two or more rows whose import paths have no non-empty
\* segment prefix in common; in every other case it returns rows and no error.
C11_ErrorIffNoCommonPrefix ==
    pc = "grouped" =>
        /\ groupErr <=> \E lpath \in SharedPaths : CommonPrefixes(lpath) = {}
        /\ groupErr => kept = <<>>

\* rows a/x and b share a path, a third row has no path: an error, no rows
C11_Witness ==
    /\ pc = "grouped"
    /\ groupErr
    /\ Len(licenses) = 3
    /\ \E i \in DOMAIN licenses : licenses[i].Path = NoPath
    /\ \E lpath \in SharedPaths : Members(lpath) = {<<"a", "x">>, <<"b">>}

\* C12: every partition of two or more rows is replaced by exactly one row,
\* the partition's first input row with at most its Package changed, and a row
\* whose non-empty path no other row carries is emitted as it is.
C12_OneRepresentative ==
    (pc = "grouped" /\ ~groupErr) =>
        \A lpath \in InputPaths :
            /\ Cardinality({k \in DOMAIN kept : kept[k].Path = lpath}) = 1
            /\ \A k \in DOMAIN kept : kept[k].Path = lpath =>
                 IF lpath \in SharedPaths
                 THEN SameButPackage(licenses[FirstOf(lpath)], kept[k])
                 ELSE kept[k] = licenses[FirstOf(lpath)]

\* a partition of two rows with different MatchResults is merged into a row
\* with a new Package next to a row that is alone on its path
C12_Witness ==
    /\ pc = "grouped"
    /\ ~groupErr
    /\ \E lpath \in SharedPaths :
         /\ \E i \in IndicesOf(lpath) : licenses[i].Score # licenses[FirstOf(lpath)].Score
         /\ \E k \in DOMAIN kept :
              kept[k].Path = lpath /\ kept[k].Package # licenses[FirstOf(lpath)].Package
    /\ \E lpath \in InputPaths \ SharedPaths : \E k \in DOMAIN kept : kept[k].Path = lpath

EmptyPath(l) == l.Path = NoPath

\* C13: the rows with an empty license path come out of groupLicenses one for
\* one: each of them once, with every field as it came in, also when there are
\* several.
C13_EmptyPathsPassThrough ==
    (pc = "grouped" /\ ~groupErr) =>
        SelectSeq(kept, EmptyPath) = SelectSeq(licenses, EmptyPath)

\* two rows without a path, an error row and a plain one, pass next to a merged row
C13_Witness ==
    /\ pc = "grouped"
    /\ ~groupErr
    /\ SharedPaths # {}
    /\ \E i, j \in DOMAIN kept :
         /\ i # j
         /\ kept[i].Path = NoPath /\ kept[i].Err # ""
         /\ kept[j].Path = NoPath /\ kept[j].Err = ""

\* the input indices that give an output row: every row without a path and the
\* first row of every path
IsEmitting(i) == licenses[i].Path = NoPath \/ i = FirstOf(licenses[i].Path)

Emitting == SelectSeq([i \in DOMAIN licenses |-> i], IsEmitting)

\* C14: the output rows stand in the order in which their row, or the first
\* row of their partition, stands in the input.
C14_FirstEncounterOrder ==
    (pc = "grouped" /\ ~groupErr) =>
        /\ Len(kept) = Len(Emitting)
        /\ \A k \in DOMAIN kept :
             /\ kept[k].Path = licenses[Emitting[k]].Path
             /\ SameButPackage(licenses[Emitting[k]], kept[k])
             /\ kept[k].Path = NoPath => kept[k] = licenses[Emitting[k]]

\* a partition whose members stand first and last, with a row without a path
\* between them: the merged row comes first
C14_Witness ==
    /\ pc = "grouped"
    /\ ~groupErr
    /\ Len(licenses) = 3
    /\ licenses[1].Path # NoPath
    /\ licenses[1].Path = licenses[3].Path
    /\ licenses[2].Path = NoPath
    /\ Len(kept) = 2
    /\ kept[1].Path = licenses[1].Path
    /\ kept[2] = licenses[2]

(***************************************************************************)
(* Properties of the file name score. The shapes are stated on the pieces *)
(* of the name, in the spellings of NamePieces.                           *)
(***************************************************************************)
LicenceSpellings == {"LICENSE", "LICENCE", "license", "licence"}

CopySpellings == {"COPYING", "COPYRIGHT", "copying", "copyright"}

TextSpellings == {"md", "MD", "markdown", "txt", "TXT"}

VersionPieces == {"-", "_", "0", "1", "2", "."}

\* from piece i on the name is one extension: a dot, then pieces without a dot
IsExtensionAt(name, i) ==
    /\ i < Len(name)
    /\ name[i] = "."
    /\ \A j \in (i + 1)..Len(name) : name[j] # "."

\* exactly LICENSE or LICENCE
IsBare(name) == Len(name) = 1 /\ name[1] \in LicenceSpellings

\* LICENSE or LICENCE with the extension .md, .markdown or .txt
IsText(name) ==
    Len(name) = 3 /\ name[1] \in LicenceSpellings /\ name[2] = "." /\ name[3] \in TextSpellings

\* COPYING or COPYRIGHT with no extension or one
IsCopying(name) ==
    Len(name) >= 1 /\ name[1] \in CopySpellings /\ (Len(name) = 1 \/ IsExtensionAt(name, 2))

\* LICENSE or LICENCE, a version-like suffix of at least one digit, dot, dash
\* or underscore, and an extension
IsVersioned(name) ==
    /\ Len(name) >= 1
    /\ name[1] \in LicenceSpellings
    /\ \E i \in 3..Len(name) :
         IsExtensionAt(name, i) /\ \A j \in 2..(i - 1) : name[j] \in VersionPieces

\* UNLICENSE or UNLICENCE, bare or with the extension .md, .markdown or .txt
IsUnlicence(name) ==
    /\ Len(name) >= 2
    /\ name[1] \in {"UN", "un"}
    /\ IsBare(Tail(name)) \/ IsText(Tail(name))

\* LICENSE or LICENCE with an extension and no suffix before it
IsExtended(name) ==
    Len(name) >= 1 /\ name[1] \in LicenceSpellings /\ IsExtensionAt(name, 2)

\* C15: whatever the case of its letters, a name that is exactly LICENSE or
\* LICENCE scores 1.0; else LICENSE or LICENCE with .md, .markdown or .txt
\* scores 0.9; else COPYING or COPYRIGHT with at most one extension scores 0.8;
\* else LICENSE or LICENCE with a version-like suffix and an extension scores
\* 0.7: the first shape that fits decides.
C15_ScoreTable ==
    pc = "scored" =>
        /\ IsBare(fname) => fscore = 10
        /\ (~IsBare(fname) /\ IsText(fname)) => fscore = 9
        /\ (~IsBare(fname) /\ ~IsText(fname) /\ IsCopying(fname)) => fscore = 8
        /\ (~IsBare(fname) /\ ~IsText(fname) /\ ~IsCopying(fname) /\ IsVersioned(fname))
             => fscore = 7

\* licence.TXT, in mixed case, has the shape with a text extension and, were
\* it not for that, the versioned shape's: it scores 0.9
C15_Witness ==
    /\ pc = "scored"
    /\ fname = <<"licence", ".", "TXT">>
    /\ fscore = 9

\* C16 as claimed: a file name of none of the four shapes scores 0 and is not
\* picked by findLicense's loop.
C16_OnlyFourShapes ==
    (pc = "scored" /\ ~IsBare(fname) /\ ~IsText(fname) /\ ~IsCopying(fname)
        /\ ~IsVersioned(fname))
    => (fscore = 0 /\ fpicked = <<>>)

\* C16: a file name that has none of the four shapes, is not UNLICENSE or
\* UNLICENCE, bare or with .md, .markdown or .txt, and is not LICENSE or LICENCE
\* with an extension alone, scores 0 and is not picked by findLicense's loop.
C16_OnlyListedShapes ==
    (pc = "scored" /\ ~IsBare(fname) /\ ~IsText(fname) /\ ~IsCopying(fname)
        /\ ~IsVersioned(fname) /\ ~IsUnlicence(fname) /\ ~IsExtended(fname))
    => (fscore = 0 /\ fpicked = <<>>)

\* LICENSE-2 has a version-like suffix and no extension: 0, and not picked
C16_Witness ==
    /\ pc = "scored"
    /\ fname = <<"LICENSE", "-", "2">>
    /\ fscore = 0
    /\ fpicked = <<>>

(***************************************************************************)
(* Properties of the rows listLicenses builds.                            *)
(***************************************************************************)
\* the directories findLicense may read for pkg
WalkOf(pkg) == {fs[d] : d \in Chain(pkg)}

NoCandidateFor(pkg) == \A dir \in WalkOf(pkg) : ~HasCandidate(dir)

AllReadableFor(pkg) == \A dir \in WalkOf(pkg) : ~dir.Err

\* the packages the loop is done with
Processed == {infos[k] : k \in 1..li}

RowsOf(package) == {i \in DOMAIN licenses : licenses[i].Package = package}

\* a row with nothing but the package
IsBareRow(l) ==
    /\ l.Path = NoPath
    /\ l.Template = NoTemplate
    /\ ScoreIsZero(l.Score)
    /\ l.ExtraWords = <<>>
    /\ l.MissingWords = <<>>
    /\ l.Err = ""

MatchFieldsOf(l) ==
    [Template |-> l.Template, Score |-> l.Score, ExtraWords |-> l.ExtraWords,
     MissingWords |-> l.MissingWords]

\* C18: in one run matchTemplates is called at most once for a license file,
\* and the row of every package that resolves to the file carries the
\* MatchResult cached for it, which is what a call of matchTemplates on the
\* file's data returns.
C18_ScoredOncePerFile ==
    /\ \A i, j \in DOMAIN matchCalls : i # j => matchCalls[i].Fpath # matchCalls[j].Fpath
    /\ ~listErr =>
         \A pkg \in Processed \cap Located : \A i \in RowsOf(pkg.ImportPath) :
            licenses[i].Path # NoPath =>
                LET fpath == <<pkg.Root, licenses[i].Path>>
                IN /\ \E k \in DOMAIN matchCalls : matchCalls[k].Fpath = fpath
                   /\ fpath \in DOMAIN matched
                   /\ MatchFieldsOf(licenses[i]) = matched[fpath]
                   /\ MatchFieldsOf(licenses[i])
                        = matchTemplates(fileAt(fpath).Data, templates)

\* two packages under one root resolve to the same file: one call, two rows
C18_Witness ==
    /\ pc = "listed"
    /\ ~listErr
    /\ Len(licenses) = 2
    /\ licenses[1].Path # NoPath
    /\ licenses[1].Path = licenses[2].Path
    /\ infos[1].Root = infos[2].Root
    /\ Len(matchCalls) = 1
    /\ licenses[2].Score = licenses[1].Score
    /\ ~ScoreIsZero(licenses[2].Score)

\* C19: a package with a resolution error gets exactly one row, with the
\* error string and with an empty path, no template, score 0 and no words;
\* findLicense and matchTemplates are not called for it; and the run goes on:
\* it ends in an error only inside a package without a resolution error, and
\* without one only when every package is done.
C19_ErrorRowAndOn ==
    /\ ~listErr =>
         \A pkg \in Processed : pkg.Error # NoError =>
            /\ Cardinality(RowsOf(pkg.Name)) = 1
            /\ \A i \in RowsOf(pkg.Name) :
                 /\ licenses[i].Err = pkg.Error
                 /\ licenses[i].Path = NoPath
                 /\ licenses[i].Template = NoTemplate
                 /\ ScoreIsZero(licenses[i].Score)
                 /\ licenses[i].ExtraWords = <<>>
                 /\ licenses[i].MissingWords = <<>>
    /\ \A k \in DOMAIN infos : infos[k].Error # NoError =>
         /\ \A c \in DOMAIN findCalls : findCalls[c] # infos[k].ImportPath
         /\ \A c \in DOMAIN matchCalls : matchCalls[c].Package # infos[k].ImportPath
    /\ (pc = "listed" /\ listErr /\ golist = AllSucceed) =>
         (info = infos[li + 1] /\ info.Error = NoError)
    /\ (pc = "listed" /\ ~listErr) => li = Len(infos)

\* the first package failed to resolve, the second has a license file: two rows
C19_Witness ==
    /\ pc = "listed"
    /\ ~listErr
    /\ Len(infos) = 2
    /\ infos[1].Error # NoError
    /\ Len(licenses) = 2
    /\ licenses[1].Err = infos[1].Error
    /\ licenses[2].Path # NoPath
    /\ findCalls = <<infos[2].ImportPath>>

FailedListing == pc = "listed" /\ golist.step \in {"expand", "deps"}

NoRowsAnd(kind) == listErr /\ licenses = <<>> /\ errKind = kind

RowNameOf(pkg) == IF pkg.Error # NoError THEN pkg.Name ELSE pkg.ImportPath

NotStandard(pkg) == pkg.ImportPath \notin stdSet

NotStandardOrFailed(pkg) == pkg.ImportPath \notin stdSet \/ pkg.Error # NoError

RowNames(pkgs) == [i \in DOMAIN pkgs |-> RowNameOf(pkgs[i])]

ReturnedRows == pc = "listed" /\ ~listErr /\ golist = AllSucceed

C22_CleanIdempotent == pc = "recleaned" => recleaned = cleaned

\* the data in lower case
Lowered == [i \in DOMAIN raw |-> ToLower(raw[i])]

Blank(c) == c = " " \/ c = "\n"

\* pieces s..e-1 of text t are a copyright notice with the blanks and line ends
\* before it: the word at w, a blank, a mark or none, blanks or none, the year
\* at y, and the rest of the line of the year
IsNotice(t, s, e) ==
    \E w \in s..(e - 2) : \E y \in (w + 2)..(e - 1) :
        /\ \A k \in s..(w - 1) : Blank(t[k])
        /\ t[w] = "copyright"
        /\ t[w + 1] = " "
        /\ \A k \in (w + 2)..(y - 1) : Blank(t[k]) \/ (k = w + 2 /\ t[k] = "(c)")
        /\ t[y] \in {"2015", "[year]"}
        /\ \A k \in (y + 1)..(e - 1) : t[k] # "\n"
        /\ e = Len(t) + 1 \/ t[e] = "\n"

\* the text without its notices, read from the left, from piece i on
RECURSIVE WithoutNotices(_, _)
WithoutNotices(t, i) ==
    IF i > Len(t) THEN <<>>
    ELSE IF \E e \in (i + 1)..(Len(t) + 1) : IsNotice(t, i, e)
         THEN WithoutNotices(t, CHOOSE e \in (i + 1)..(Len(t) + 1) : IsNotice(t, i, e))
         ELSE <<t[i]>> \o WithoutNotices(t, i + 1)

\* the notices of text t from piece i on, read from the left, none inside
\* another: each as <<first piece, piece after the last>>
RECURSIVE NoticesOf(_, _)
NoticesOf(t, i) ==
    IF i > Len(t) THEN {}
    ELSE IF \E e \in (i + 1)..(Len(t) + 1) : IsNotice(t, i, e)
         THEN LET e == CHOOSE e \in (i + 1)..(Len(t) + 1) : IsNotice(t, i, e)
              IN  {<<i, e>>} \cup NoticesOf(t, e)
         ELSE NoticesOf(t, i + 1)

\* every John of the data stands in one of its notices
NamesInNotices ==
    \A i \in DOMAIN raw : raw[i] = "John" =>
        \E n \in NoticesOf(Lowered, 1) : n[1] <= i /\ i < n[2]

\* C23: cleanLicenseData returns the text in lower case without its copyright
\* notices: of each, the blanks and line ends before the word, the word, the
\* mark, the year and the rest of the line up to its line end, which stays;
\* every other piece stays where it is, and a name that stands only in notices
\* is no token.
C23_NoticesDeleted ==
    pc = "cleaned" =>
        /\ cleaned = WithoutNotices(Lowered, 1)
        /\ NamesInNotices => \A w \in DOMAIN wordSet : w # "john"

\* line end / Copyright (c) 2015 John / line end: the line end after the notice
\* stays and john is no token
C23_Witness ==
    /\ pc = "cleaned"
    /\ raw = <<"\n", "Copyright", " ", "(c)", "2015", "John", "\n">>
    /\ cleaned = <<"\n">>
    /\ wordSet = <<>>

\* the token stream of the cleaned text
TokenStream == findAll(cleaned, 1, "")

StartsRun(i) ==
    /\ ~Blank(cleaned[i])
    /\ i = 1 \/ Blank(cleaned[i - 1]) \/ cleaned[i - 1] = "(c)" \/ cleaned[i] = "(c)"

\* C24: the tokens are the maximal runs of word characters of the cleaned
\* text, and makeWordSet maps each token of the stream to the 0-based index of
\* its first occurrence in the stream: its keys are the tokens of the stream
\* and no later occurrence changes an index.
C24_FirstOccurrenceIndex ==
    pc = "cleaned" =>
        /\ Len(TokenStream) = Cardinality({i \in DOMAIN cleaned : StartsRun(i)})
        /\ DOMAIN wordSet = Range(TokenStream)
        /\ \A w \in DOMAIN wordSet :
             /\ TokenStream[wordSet[w] + 1] = w
             /\ \A k \in 1..wordSet[w] : TokenStream[k] # w
        /\ \A v, w \in DOMAIN wordSet : v # w => wordSet[v] # wordSet[w]

\* john 2015 john c: the second john does not move the index of the first
C24_Witness ==
    /\ pc = "cleaned"
    /\ cleaned = <<"john", " ", "2015", " ", "john", "(c)">>
    /\ wordSet = ("john" :> 0) @@ ("2015" :> 1) @@ ("c" :> 3)

(***************************************************************************)
(* The empty candidate.                                                   *)
(***************************************************************************)
\* the templates with a non-empty word set
NonEmptyTemplates == {i \in DOMAIN assets : TmplSet(i) # {}}

FirstNonEmpty == CHOOSE i \in NonEmptyTemplates : \A j \in NonEmptyTemplates : i <= j

EmptyCandidateResult(t) ==
    /\ result.Template = t
    /\ ScoreIsZero(result.Score)
    /\ result.ExtraWords = <<>>
    /\ Range(result.MissingWords) = TmplSet(t)
    /\ Len(result.MissingWords) = Cardinality(TmplSet(t))

\* C25, as claimed: a candidate without words scores 0 against every template
\* with a non-empty word set, and of a corpus holding such a template the
\* result is the first template of the corpus, with score 0, no extra word and
\* the whole vocabulary of that template as missing words.
C25_EmptyCandidateFirstOfCorpus ==
    (CandSet = {} /\ NonEmptyTemplates # {}) =>
        /\ (ti >= 1 /\ ti \in NonEmptyTemplates) => ScoreIsZero(iter.score)
        /\ pc = "done" => EmptyCandidateResult(1)

\* C25, amended: a candidate without words scores 0 against every template
\* with a non-empty word set, and of a corpus holding such a template the
\* result is the first template with a non-empty word set, in corpus order,
\* with score 0, no extra word and the whole vocabulary of that template as
\* missing words.
C25_EmptyCandidateFirstNonEmpty ==
    (CandSet = {} /\ NonEmptyTemplates # {}) =>
        /\ (ti >= 1 /\ ti \in NonEmptyTemplates) => ScoreIsZero(iter.score)
        /\ pc = "done" => EmptyCandidateResult(FirstNonEmpty)

\* two templates with words and an empty candidate: the first is returned
C25_Witness ==
    /\ pc = "done"
    /\ license = <<>>
    /\ NonEmptyTemplates = {1, 2}
    /\ TmplSet(1) # TmplSet(2)
    /\ EmptyCandidateResult(1)

(***************************************************************************)
(* The file kept within one directory.                                    *)
(***************************************************************************)
\* the directory findLicense read last
lastDir == fs[<<info.Root, visited[Len(visited)]>>]

\* the file name scores of the regular entries of a listing
regularScores(fis) ==
    [i \in {k \in DOMAIN fis : fis[k].Regular} |-> scoreLicenseName(fis[i].Name)]

\* the entries of greatest score
TopOf(sc) == {i \in DOMAIN sc : \A j \in DOMAIN sc : sc[i] >= sc[j]}

LeastOf(S) == CHOOSE i \in S : \A j \in S : i <= j

TopIn(dir) == TopOf(regularScores(dir.Entries))

\* C26: the file findLicense returns from a directory is a regular file of the
\* greatest file name score among the regular files of the directory, and of
\* those of this score the first of the listing; an entry that is no regular
\* file is not returned whatever its name.
C26_FirstHighestRegular ==
    (pc = "return" /\ findPath # NoPath) =>
        LET fis == lastDir.Entries
            top == TopOf(regularScores(fis))
        IN /\ top # {}
           /\ findPath = Join(visited[Len(visited)], text(fis[LeastOf(top)].Name))
           /\ fis[LeastOf(top)].Regular

\* LICENCE and LICENSE score the same: the first of the listing is returned
C26_Witness ==
    /\ pc = "return"
    /\ findPath # NoPath
    /\ Cardinality(TopIn(lastDir)) = 2
    /\ findPath = Join(visited[Len(visited)], "LICENCE")

(***************************************************************************)
(* Properties of parseTemplate.                                           *)
(***************************************************************************)
\* the lines the scanner has returned
LinesRead == SubSeq(content, 1, lineNo)

NoBlanks(l) == SelectSeq(l, LAMBDA c : c # " ")

\* the lines of dashes among the lines read
Dashes == {i \in 1..lineNo : NoBlanks(content[i]) = <<"---">>}

Least(S) == CHOOSE i \in S : \A j \in S : i <= j

\* the line that opens the front matter and the line that closes it: 0 for none
Opening == IF Dashes = {} THEN 0 ELSE Least(Dashes)

Closing == IF Cardinality(Dashes) < 2 THEN 0 ELSE Least(Dashes \ {Opening})

FrontMatter ==
    IF Opening = 0 THEN {}
    ELSE {i \in 1..lineNo : Opening < i /\ (Closing = 0 \/ i < Closing)}

BodyLines == IF Closing = 0 THEN {} ELSE {i \in 1..lineNo : i > Closing}

\* the lines from i on that belong to the body, each with its line end
RECURSIVE BodyFrom(_)
BodyFrom(i) ==
    IF i > lineNo THEN <<>>
    ELSE (IF i \in BodyLines THEN content[i] \o <<"\n">> ELSE <<>>) \o BodyFrom(i + 1)

\* the words of a line, in lower case
WordsOfLine(l) == {ToLower(l[k]) : k \in {j \in DOMAIN l : l[j] \notin {" ", ":", "---"}}}

\* where parseTemplate stands after the lines read
ScannerAt ==
    /\ state = (IF Opening = 0 THEN 0 ELSE IF Closing = 0 THEN 1 ELSE 2)
    /\ title = (IF \E i \in FrontMatter : content[i] = TitleLine THEN <<"MIT">> ELSE <<>>)
    /\ nickname = (IF \E i \in FrontMatter : content[i] = NickLine THEN <<"X11">> ELSE <<>>)
    /\ bodyText = BodyFrom(1)

Returned ==
    /\ parsed.Title = title
    /\ parsed.Nickname = nickname
    /\ DOMAIN parsed.Words = UNION {WordsOfLine(content[i]) : i \in BodyLines}

\* C27: parseTemplate is in the preamble until the first line of dashes, in the
\* front matter until the next one and in the body from then on, later lines
\* of dashes included; the state never goes back; title and nickname are those
\* of the front-matter lines and empty without such a line; the text given to
\* the tokenizer is made of the body lines and of no other line.
C27_ThreeStateScanner ==
    /\ [](pc \in {"parse", "parsed"} => ScannerAt)
    /\ [](pc = "parsed" => Returned)
    /\ [][(pc = "parse" /\ pc' = "parse") => state' \in {state, state + 1}]_vars

\* title in the preamble, dashes, dashes, dashes: the third line of dashes is
\* body text, there is no title and no word
C27_Witness ==
    /\ pc = "parsed"
    /\ content = <<TitleLine, Delim, Delim, Delim>>
    /\ state = 2
    /\ parsed.Title = <<>>
    /\ bodyText = Delim \o <<"\n">>
    /\ parsed.Words = <<>>

(***************************************************************************)
(* Fatal failures.                                                        *)
(***************************************************************************)
\* an asset that parseTemplate fails on
FailingAsset == \E i \in DOMAIN contents : TooLong \in Range(contents[i])

\* findLicense has met a directory it cannot read
ReadDirFailed ==
    /\ pc \in {"return", "listed"}
    /\ visited # <<>>
    /\ fs[<<info.Root, visited[Len(visited)]>>].Err

\* findLicense has chosen a file that cannot be read
ChosenUnreadable ==
    /\ pc \in {"return", "listed"}
    /\ findPath # NoPath
    /\ fileAt(fpathOf(info, findPath)).Unreadable

\* C28, as claimed: when the load of a template fails loadTemplates returns
\* the error and no template; when findLicense cannot read a directory of its
\* walk, or the file chosen cannot be read, findLicense returns the error with
\* the empty path and listLicenses returns an error and no row.
C28_NoPartialResult ==
    /\ (pc = "loaded" /\ FailingAsset) => loadRet = [Templates |-> <<>>, Err |-> TRUE]
    /\ (ReadDirFailed \/ ChosenUnreadable) => (findErr /\ findPath = NoPath)
    /\ (pc = "listed" /\ (ReadDirFailed \/ ChosenUnreadable)) => NoRowsAnd("error")

\* C28, amended: when the load of a template fails loadTemplates returns the
\* error and no template; when findLicense cannot read a directory of its walk
\* it returns the error with the empty path; when the file it chose cannot be
\* read it has returned the path of the file and no error; in both cases
\* listLicenses returns an error and no row.
C28_NoPartialResultByCase ==
    /\ (pc = "loaded" /\ FailingAsset) => loadRet = [Templates |-> <<>>, Err |-> TRUE]
    /\ ReadDirFailed => (findErr /\ findPath = NoPath)
    /\ ChosenUnreadable => (~findErr /\ findPath # NoPath)
    /\ (pc = "listed" /\ (ReadDirFailed \/ ChosenUnreadable)) => NoRowsAnd("error")

\* the walk for the second package meets a directory that cannot be read: the
\* row of the first package is not returned
C28_Witness ==
    /\ pc = "listed"
    /\ ReadDirFailed
    /\ Len(findCalls) = 2
    /\ li = 1
    /\ NoRowsAnd("error")

(***************************************************************************)
(* Termination of findLicense.                                            *)
(***************************************************************************)
\* C29: findLicense returns for every import path, with a leading separator
\* or without: every step to the parent directory shortens the path, no
\* directory is read twice, and the walk ends with a candidate, an error or
\* at ".".
C29_WalkTerminates ==
    /\ <>(pc = "return")
    /\ [][(pc = "find" /\ pc' = "find") => Len(path') < Len(path)]_vars
    /\ [](\A i, j \in DOMAIN visited : i # j => visited[i] # visited[j])

(***************************************************************************)
(* groupLicenses on the rows of listLicenses.                             *)
(***************************************************************************)
\* the directory of the license file of row l
LicenseDir(l) == Dir(l.Path)

\* C30: on the rows listLicenses returns, groupLicenses returns no error: the
\* license file of a row is in the directory of the package or in a directory
\* above it, so the rows of one path have that directory, which is not ".",
\* as a common prefix of their import paths, and the package of a row that
\* groupLicenses returns is at least as deep as the directory of its file.
C30_NoGroupingConflict ==
    /\ pc = "grouped" => ~groupErr
    /\ \A i \in DOMAIN licenses : licenses[i].Path # NoPath =>
         /\ LicenseDir(licenses[i]) # Dot
         /\ LicenseDir(licenses[i]) \in Prefixes(licenses[i].Package)
    /\ \A i, j \in DOMAIN licenses :
         (licenses[i].Path # NoPath /\ licenses[i].Path = licenses[j].Path) =>
            LicenseDir(licenses[i]) \in
                Prefixes(licenses[i].Package) \cap Prefixes(licenses[j].Package)
    /\ pc = "grouped" =>
         \A k \in DOMAIN kept : kept[k].Path # NoPath =>
            Len(kept[k].Package) >= Len(LicenseDir(kept[k]))

\* a/x and a/y share the file a/LICENSE and are grouped as a
C30_Witness ==
    /\ pc = "grouped"
    /\ ~groupErr
    /\ Len(licenses) = 2
    /\ licenses[1].Package = <<"a", "x">>
    /\ licenses[2].Package = <<"a", "y">>
    /\ licenses[1].Path = <<"a", "LICENSE">>
    /\ licenses[2].Path = <<"a", "LICENSE">>
    /\ Len(kept) = 1
    /\ kept[1].Package = <<"a">>

====
